---------------------------- MODULE Spec2Model ----------------------------
(*************************************************************************)
(* A model of the property-price project: feature defaults and           *)
(* overrides (property/features.py), the training and inference          *)
(* pipeline (property/melb_price_model.py), the prediction service and   *)
(* the registration endpoint (property/api).                             *)
(*                                                                       *)
(* Strings are sequences of symbols; a symbol is one character, or an    *)
(* indivisible word of letters such as "Rooms".  Python values are       *)
(* tagged records: None, int, float, str.                                *)
(*************************************************************************)
EXTENDS Integers, Sequences, FiniteSets, TLC

(***************************** bounds *************************************)
\* longest free-form override string drawn as an input
MaxPairLen == 5
\* most rows of a data file
MaxRows == 3
\* states of the process-wide random generator an unseeded draw can see
NEntropy == 2

(***************************** Python values ******************************)
None == [t |-> "None"]
IntVal(n) == [t |-> "int", v |-> n]
StrVal(s) == [t |-> "str", s |-> s]

RECURSIVE NormFloat(_, _)
\* a float is num * 10^(-scale), kept normalised so that 3.0 = 3.00
NormFloat(num, scale) ==
  IF scale > 0 /\ num % 10 = 0 THEN NormFloat(num \div 10, scale - 1)
  ELSE [t |-> "float", num |-> num, scale |-> scale]

FloatVal(num, scale) == NormFloat(num, scale)

\* the exception object of a failed call
Raise(kind) == [t |-> "raise", exc |-> kind]
IsRaise(x) == x.t = "raise"

(***************************** strings ************************************)
Space == " "
IsDigit(c) == c \in {"0", "1", "2", "3", "4", "5", "6", "7", "8", "9"}
DigitVal(c) ==
  CASE c = "0" -> 0 [] c = "1" -> 1 [] c = "2" -> 2 [] c = "3" -> 3
    [] c = "4" -> 4 [] c = "5" -> 5 [] c = "6" -> 6 [] c = "7" -> 7
    [] c = "8" -> 8 [] c = "9" -> 9

RECURSIVE LStrip(_)
LStrip(s) == IF s # <<>> /\ Head(s) = Space THEN LStrip(Tail(s)) ELSE s

RECURSIVE RStrip(_)
RStrip(s) ==
  IF s # <<>> /\ s[Len(s)] = Space THEN RStrip(SubSeq(s, 1, Len(s) - 1)) ELSE s

\* str.strip()
Strip(s) == RStrip(LStrip(s))

\* index of the first occurrence of c in s, 0 when there is none
FirstIndex(s, c) ==
  IF \E i \in 1..Len(s) : s[i] = c
  THEN CHOOSE i \in 1..Len(s) : s[i] = c /\ \A j \in 1..(i - 1) : s[j] # c
  ELSE 0

AllDigits(s) == s # <<>> /\ \A i \in 1..Len(s) : IsDigit(s[i])

RECURSIVE DigitsValue(_)
DigitsValue(s) ==
  IF s = <<>> THEN 0
  ELSE 10 * DigitsValue(SubSeq(s, 1, Len(s) - 1)) + DigitVal(s[Len(s)])

HasSign(s) == s # <<>> /\ Head(s) \in {"-", "+"}
Unsigned(s) == IF HasSign(s) THEN Tail(s) ELSE s
SignOf(s) == IF s # <<>> /\ Head(s) = "-" THEN -1 ELSE 1

\* int(s): surrounding whitespace, an optional sign, decimal digits
ParseInt(s) ==
  LET u == Strip(s) IN
    IF AllDigits(Unsigned(u)) THEN IntVal(SignOf(u) * DigitsValue(Unsigned(u)))
    ELSE Raise("ValueError")

\* float(s): surrounding whitespace, an optional sign, digits with an optional
\* fraction part ("5", "5.", "5.0", ".5")
ParseFloat(s) ==
  LET u == Unsigned(Strip(s))
      sg == SignOf(Strip(s))
      dot == FirstIndex(u, ".")
      ip == IF dot = 0 THEN u ELSE SubSeq(u, 1, dot - 1)
      fp == IF dot = 0 THEN <<>> ELSE SubSeq(u, dot + 1, Len(u))
      digits == ip \o fp
  IN IF /\ digits # <<>>
        /\ \A i \in 1..Len(digits) : IsDigit(digits[i])
     THEN FloatVal(sg * DigitsValue(digits), Len(fp))
     ELSE Raise("ValueError")

(***************************** dictionaries *******************************)
EmptyDict == [k \in {} |-> None]
Put(d, k, v) == [x \in (DOMAIN d) \cup {k} |-> IF x = k THEN v ELSE d[x]]
\* dict.update(other)
Update(d, other) ==
  [x \in (DOMAIN d) \cup (DOMAIN other) |-> IF x \in DOMAIN other THEN other[x] ELSE d[x]]
\* {k: v for k, v in d.items() if v is not None}
Restrict(d, keys) == [x \in keys |-> d[x]]
Ok(v) == [t |-> "ok", val |-> v]
\* the element of a one-element set; The({e : x \in {v}}) is e with x
\* standing for the value of v, computed once
The(S) == CHOOSE x \in S : TRUE

(***************************** features.py ********************************)
\* a column name is a one-word string
Col(w) == <<w>>

maybe_cast_value_float_first(value) ==
  IF ~IsRaise(ParseFloat(value)) THEN ParseFloat(value)
  ELSE IF ~IsRaise(ParseInt(value)) THEN ParseInt(value)
  ELSE StrVal(value)

\* for caster in (int, float): try: return caster(value) ...; return value
maybe_cast_value(value) ==
  IF ~IsRaise(ParseInt(value)) THEN ParseInt(value)
  ELSE IF ~IsRaise(ParseFloat(value)) THEN ParseFloat(value)
  ELSE StrVal(value)

RECURSIVE ParsePairs(_, _)
\* the loop of parse_custom_features: the first malformed pair raises and the
\* mapping built so far is lost
ParsePairs(pairs, acc) ==
  IF pairs = <<>> THEN Ok(acc)
  ELSE LET pair == Head(pairs)
           eq == FirstIndex(pair, "=")
           key == Strip(SubSeq(pair, 1, eq - 1))
           value == Strip(SubSeq(pair, eq + 1, Len(pair)))
       IN IF eq = 0 THEN Raise("ValueError")
          ELSE IF key = <<>> THEN Raise("ValueError")
          ELSE ParsePairs(Tail(pairs), Put(acc, key, maybe_cast_value(value)))

RECURSIVE ParsePairsSkipping(_, _)
ParsePairsSkipping(pairs, acc) ==
  IF pairs = <<>> THEN Ok(acc)
  ELSE LET pair == Head(pairs)
           eq == FirstIndex(pair, "=")
           key == Strip(SubSeq(pair, 1, eq - 1))
           value == Strip(SubSeq(pair, eq + 1, Len(pair)))
       IN IF eq = 0 \/ key = <<>> THEN ParsePairsSkipping(Tail(pairs), acc)
          ELSE ParsePairsSkipping(Tail(pairs), Put(acc, key, maybe_cast_value(value)))

parse_custom_features_skipping(feature_pairs) == ParsePairsSkipping(feature_pairs, EmptyDict)

parse_custom_features(feature_pairs) == ParsePairs(feature_pairs, EmptyDict)

apply_feature_overrides_no_copy(base_features, overrides) ==
  LET given == {k \in DOMAIN overrides : overrides[k] # None}
      combined == Update(base_features, Restrict(overrides, given))
  IN [combined |-> combined, base_features |-> combined]

apply_feature_overrides_keep_none(base_features, overrides) ==
  [combined |-> Update(base_features, overrides), base_features |-> base_features]

apply_feature_overrides_replacing(base_features, overrides) ==
  LET given == {k \in DOMAIN overrides : overrides[k] # None}
  IN [combined |-> Restrict(overrides, given), base_features |-> base_features]

\* combined is the returned row; base_features is the content of the argument
\* object after the call (the code updates a copy, so it is what it was)
apply_feature_overrides(base_features, overrides) ==
  LET given == {k \in DOMAIN overrides : overrides[k] # None}
      combined == Update(base_features, Restrict(overrides, given))
  IN [combined |-> combined, base_features |-> base_features]

(***************************** tabular data *******************************)
\* a missing cell (pandas NaN)
NaN == [t |-> "nan"]
IsMissing(v) == v = NaN \/ v = None
IsNumber(v) == v.t \in {"int", "float"}

\* categorical cell values, in sort order
SortedCategories == <<StrVal(<<"A">>), StrVal(<<"B">>), StrVal(<<"C">>)>>
CategoryRank(v) == CHOOSE i \in 1..Len(SortedCategories) : SortedCategories[i] = v

\* the columns of the CSV file, in file order
CsvColumns == <<Col("Price"), Col("Rooms"), Col("Suburb")>>

SeqToSet(s) == {s[i] : i \in 1..Len(s)}

RECURSIVE SelectSeq2(_, _)
\* the subsequence of s whose elements are in keep
SelectSeq2(s, keep) ==
  IF s = <<>> THEN <<>>
  ELSE IF Head(s) \in keep THEN <<Head(s)>> \o SelectSeq2(Tail(s), keep)
  ELSE SelectSeq2(Tail(s), keep)

\* the dtype pandas gives a column when it reads the file: numeric when the
\* file has rows and every cell is a number or missing, object otherwise
InferDtype(rows, c) ==
  IF rows # <<>> /\ \A i \in 1..Len(rows) : IsMissing(rows[i][c]) \/ IsNumber(rows[i][c])
  THEN "number" ELSE "object"

\* the header line of the file: the columns its rows have, in file order (a
\* file without rows has the full header)
Header(rows) ==
  IF rows = <<>> THEN CsvColumns ELSE SelectSeq2(CsvColumns, DOMAIN rows[1])

\* pd.read_csv: a frame keeps its column order, its dtypes and its rows
read_csv(rows) ==
  [columns |-> Header(rows),
   dtypes |-> [c \in SeqToSet(Header(rows)) |-> InferDtype(rows, c)],
   rows |-> rows]

RECURSIVE KeepRows(_, _)
\* df.dropna(subset=[target_column])
KeepRows(rows, target_column) ==
  IF rows = <<>> THEN <<>>
  ELSE IF IsMissing(Head(rows)[target_column]) THEN KeepRows(Tail(rows), target_column)
  ELSE <<Head(rows)>> \o KeepRows(Tail(rows), target_column)

dropna(df, target_column) == [df EXCEPT !.rows = KeepRows(df.rows, target_column)]

RECURSIVE FirstOccurrences(_, _)
FirstOccurrences(rows, seen) ==
  IF rows = <<>> THEN <<>>
  ELSE IF Head(rows) \in seen THEN FirstOccurrences(Tail(rows), seen)
  ELSE <<Head(rows)>> \o FirstOccurrences(Tail(rows), seen \cup {Head(rows)})

\* df.drop_duplicates(): the first of each group of identical rows is kept
drop_duplicates(df) == [df EXCEPT !.rows = FirstOccurrences(df.rows, {})]

drop_column_nothing(df, target_column) == df

\* df.drop(columns=[target_column])
drop_column(df, target_column) ==
  LET cols == SelectSeq2(df.columns, SeqToSet(df.columns) \ {target_column})
  IN [columns |-> cols,
      dtypes |-> Restrict(df.dtypes, SeqToSet(cols)),
      rows |-> [i \in 1..Len(df.rows) |-> Restrict(df.rows[i], SeqToSet(cols))]]

\* select_dtypes(include=["number"]).columns / select_dtypes(exclude=["number"]).columns
select_dtypes(df, kind) ==
  SelectSeq2(df.columns, {c \in SeqToSet(df.columns) : df.dtypes[c] = kind})

(***************************** median and mode ****************************)
RECURSIVE InsertSorted(_, _)
InsertSorted(s, n) ==
  IF s = <<>> THEN <<n>>
  ELSE IF n <= Head(s) THEN <<n>> \o s
  ELSE <<Head(s)>> \o InsertSorted(Tail(s), n)

RECURSIVE SortInts(_)
SortInts(s) == IF s = <<>> THEN <<>> ELSE InsertSorted(SortInts(Tail(s)), Head(s))

\* the non-missing cells of column c, as integers, in row order
ColumnInts(rows, c) ==
  LET idx == SelectSeq2([i \in 1..Len(rows) |-> i], {i \in 1..Len(rows) : ~IsMissing(rows[i][c])})
  IN [k \in 1..Len(idx) |-> rows[idx[k]][c].v]

\* Series.median(): missing cells are skipped, the result is a float, and a
\* column with no value has the median NaN
Median(rows, c) ==
  LET s == SortInts(ColumnInts(rows, c))
      n == Len(s)
  IN IF n = 0 THEN NaN
     ELSE IF n % 2 = 1 THEN FloatVal(s[(n + 1) \div 2], 0)
     ELSE FloatVal(5 * (s[n \div 2] + s[n \div 2 + 1]), 1)

CountOf(rows, c, v) == Cardinality({i \in 1..Len(rows) : rows[i][c] = v})

\* Series.mode(dropna=True): the most frequent non-missing values
Modes(rows, c) ==
  LET vals == {rows[i][c] : i \in 1..Len(rows)} \ {NaN, None}
  IN {v \in vals : \A w \in vals : CountOf(rows, c, w) <= CountOf(rows, c, v)}

\* the first row of DataFrame.mode(): per column the smallest of its modes in
\* sort order, NaN for a column that has none
FirstMode(rows, c) ==
  LET m == Modes(rows, c)
  IN IF m = {} THEN NaN
     ELSE CHOOSE v \in m : \A w \in m : CategoryRank(v) <= CategoryRank(w)

(***************************** load_feature_defaults **********************)
\* the medians of the numeric feature columns, then the first row of the mode
\* frame of the categorical ones; the mode frame has no row, and .iloc[0]
\* raises IndexError, when no categorical column has a non-missing value
load_feature_defaults(csv, target_column) ==
  LET df0 == read_csv(csv) IN
    IF target_column \notin SeqToSet(df0.columns) THEN Raise("ValueError")
    ELSE LET df == dropna(df0, target_column) IN
      IF df.rows = <<>> THEN Raise("ValueError")
      ELSE LET feature_frame == drop_column(df, target_column)
               numeric_cols == select_dtypes(feature_frame, "number")
               categorical_cols == select_dtypes(feature_frame, "object")
               medians == [c \in SeqToSet(numeric_cols) |-> Median(feature_frame.rows, c)]
               modes == [c \in SeqToSet(categorical_cols) |-> FirstMode(feature_frame.rows, c)]
           IN IF /\ categorical_cols # <<>>
                 /\ \A c \in SeqToSet(categorical_cols) : Modes(feature_frame.rows, c) = {}
              THEN Raise("IndexError")
              ELSE Ok(Update(medians, modes))

(***************************** melb_price_model.py ************************)
load_dataset_keep_duplicates(csv, target_column) ==
  LET df0 == read_csv(csv) IN
    IF target_column \notin SeqToSet(df0.columns) THEN Raise("KeyError")
    ELSE Ok(dropna(df0, target_column))

load_dataset_unchecked(csv, target_column) ==
  LET df0 == read_csv(csv) IN
    IF target_column \notin SeqToSet(df0.columns) THEN Ok(drop_duplicates(df0))
    ELSE Ok(drop_duplicates(dropna(df0, target_column)))

\* read, drop the rows without a target (KeyError when the column is not
\* there), drop the duplicates
load_dataset(csv, target_column) ==
  LET df0 == read_csv(csv) IN
    IF target_column \notin SeqToSet(df0.columns) THEN Raise("KeyError")
    ELSE Ok(drop_duplicates(dropna(df0, target_column)))

\* the value of OneHotEncoder's handle_unknown set by _build_preprocessor
HandleUnknownError == "error"
HandleUnknown == "ignore"

\* the transformer chains of the column transformer: one per non-empty list
Transformers(numeric_features, categorical_features) ==
  (IF numeric_features # <<>>
   THEN <<[name |-> "numeric", steps |-> <<"median_imputer", "scaler">>,
           columns |-> numeric_features]>>
   ELSE <<>>)
  \o
  (IF categorical_features # <<>>
   THEN <<[name |-> "categorical", steps |-> <<"most_frequent_imputer", "onehot">>,
           columns |-> categorical_features]>>
   ELSE <<>>)

\* a _build_preprocessor without the check for an empty list of chains
_build_preprocessor_unchecked(numeric_features, categorical_features) ==
  Ok([transformers |-> Transformers(numeric_features, categorical_features),
      handle_unknown |-> HandleUnknown])

_build_preprocessor(numeric_features, categorical_features) ==
  LET transformers == Transformers(numeric_features, categorical_features)
  IN IF transformers = <<>> THEN Raise("ValueError")
     ELSE Ok([transformers |-> transformers, handle_unknown |-> HandleUnknown])

_build_pipeline_unseeded(numeric_features, categorical_features, random_state, use_hist_gradient_boosting) ==
  LET preprocessor == _build_preprocessor(numeric_features, categorical_features)
  IN IF IsRaise(preprocessor) THEN preprocessor
     ELSE Ok([fitted |-> FALSE,
              preprocessor |-> preprocessor.val,
              regressor |-> [family |-> IF use_hist_gradient_boosting
                                        THEN "HistGradientBoostingRegressor"
                                        ELSE "GradientBoostingRegressor",
                             random_state |-> None]])

\* the unfitted pipeline: preprocessor, then the regressor of the chosen family
\* seeded with random_state
_build_pipeline(numeric_features, categorical_features, random_state, use_hist_gradient_boosting) ==
  LET preprocessor == _build_preprocessor(numeric_features, categorical_features)
  IN IF IsRaise(preprocessor) THEN preprocessor
     ELSE Ok([fitted |-> FALSE,
              preprocessor |-> preprocessor.val,
              regressor |-> [family |-> IF use_hist_gradient_boosting
                                        THEN "HistGradientBoostingRegressor"
                                        ELSE "GradientBoostingRegressor",
                             random_state |-> random_state]])

ChainColumns(preprocessor, name) ==
  LET hit == {i \in 1..Len(preprocessor.transformers) : preprocessor.transformers[i].name = name}
  IN IF hit = {} THEN <<>> ELSE preprocessor.transformers[CHOOSE i \in hit : TRUE].columns

(***************************** fit and predict ****************************)
\* a number as the float the numeric chain works on
ToFloat(v) == IF v.t = "int" THEN FloatVal(v.v, 0) ELSE v

\* the statistics the two imputers and the one-hot encoder learn from X_train
FitPreprocessor(preprocessor, X_train) ==
  LET num == SeqToSet(ChainColumns(preprocessor, "numeric"))
      cat == SeqToSet(ChainColumns(preprocessor, "categorical"))
      fills == [c \in cat |-> FirstMode(X_train, c)]
  IN [medians |-> [c \in num |-> Median(X_train, c)],
      fills |-> fills,
      categories |-> [c \in cat |->
         {IF IsMissing(X_train[i][c]) THEN fills[c] ELSE X_train[i][c] :
            i \in 1..Len(X_train)} \ {NaN}]]

\* the preprocessor applied to one row: a column the imputer found empty at
\* fit is dropped, a missing cell is imputed, a string in a numeric column
\* cannot be converted, and a category not seen at fit encodes as all zeros
\* (handle_unknown="ignore") or raises (handle_unknown="error")
Encode(preprocessor, stats, row) ==
  LET num == {c \in DOMAIN stats.medians : stats.medians[c] # NaN}
      cat == {c \in DOMAIN stats.fills : stats.fills[c] # NaN}
      value(c) == IF IsMissing(row[c]) THEN stats.fills[c] ELSE row[c]
  IN IF ~((DOMAIN stats.medians) \cup (DOMAIN stats.fills) \subseteq DOMAIN row)
     THEN Raise("ValueError")
     ELSE IF \E c \in num : ~IsMissing(row[c]) /\ ~IsNumber(row[c])
     THEN Raise("ValueError")
     ELSE IF /\ preprocessor.handle_unknown = "error"
             /\ \E c \in cat : value(c) \notin stats.categories[c]
     THEN Raise("ValueError")
     ELSE Ok([numeric |-> [c \in num |->
                 IF IsMissing(row[c]) THEN stats.medians[c] ELSE ToFloat(row[c])],
              onehot |-> [c \in cat |->
                 [k \in stats.categories[c] |-> IF k = value(c) THEN 1 ELSE 0]]])

\* pipeline.fit(X_train, y_train): a chain all of whose columns are empty in
\* X_train hands on a matrix without columns, which the next step refuses;
\* the regressor draws from its random_state, or from the process's
\* generator (entropy) when it has none
Fit(pipeline, X_train, y_train, entropy) ==
  LET pre == pipeline.preprocessor
      stats == FitPreprocessor(pre, X_train)
      emptyChain(cols, st) == cols # {} /\ \A c \in cols : st[c] = NaN
  IN IF emptyChain(DOMAIN stats.medians, stats.medians)
        \/ emptyChain(DOMAIN stats.fills, stats.fills)
     THEN Raise("ValueError")
     ELSE Ok([pipeline EXCEPT
                !.fitted = TRUE,
                !.regressor = [family |-> pipeline.regressor.family,
                               random_state |-> pipeline.regressor.random_state,
                               stats |-> stats,
                               rng |-> IF pipeline.regressor.random_state = None
                                       THEN entropy
                                       ELSE pipeline.regressor.random_state,
                               X |-> [i \in 1..Len(X_train) |->
                                        Encode(pre, stats, X_train[i]).val],
                               y |-> y_train]])

\* pipeline.predict(frame): one prediction per row, each the fitted regressor
\* applied to the encoded row
Predict(pipeline, rows) ==
  IF pipeline = None THEN Raise("AttributeError")
  ELSE IF ~pipeline.fitted THEN Raise("NotFittedError")
  ELSE LET enc == [i \in 1..Len(rows) |->
                     Encode(pipeline.preprocessor, pipeline.regressor.stats, rows[i])]
       IN IF \E i \in 1..Len(rows) : IsRaise(enc[i])
          THEN Raise("ValueError")
          ELSE Ok([i \in 1..Len(rows) |->
                     [t |-> "float", model |-> [family |-> pipeline.regressor.family,
                                                rng |-> pipeline.regressor.rng,
                                                X |-> pipeline.regressor.X,
                                                y |-> pipeline.regressor.y],
                      x |-> enc[i].val]])

\* predict_price: the row as a one-row frame, the first prediction as a float
predict_price(pipeline, feature_row) ==
  LET prediction == Predict(pipeline, <<feature_row>>)
  IN IF IsRaise(prediction) THEN prediction ELSE Ok(prediction.val[1])

(***************************** train_test_split ***************************)
\* the order the generator shuffles n rows into: a function of n and of the
\* generator's state alone (here a rotation; which permutation a seed gives
\* is the library's business)
Permutation(n, rng) == [i \in 1..n |-> ((i - 1 + rng.v) % n) + 1]

\* test_size is a fraction num/den; the held-out part has ceil(test_size * n)
\* rows, the first of the shuffled order; the split refuses to leave either
\* part empty
train_test_split(X, y, test_size, random_state, entropy) ==
  LET n == Len(X)
      n_test == (n * test_size.num + test_size.den - 1) \div test_size.den
      n_train == n - n_test
      rng == IF random_state = None THEN entropy ELSE random_state
      perm == Permutation(n, rng)
  IN IF n = 0 \/ n_train = 0 THEN Raise("ValueError")
     ELSE Ok([X_train |-> [i \in 1..n_train |-> X[perm[n_test + i]]],
              y_train |-> [i \in 1..n_train |-> y[perm[n_test + i]]],
              X_test |-> [i \in 1..n_test |-> X[perm[i]]],
              y_test |-> [i \in 1..n_test |-> y[perm[i]]]])

(***************************** process environment ************************)
thread_env_vars ==
  <<"OMP_NUM_THREADS", "OPENBLAS_NUM_THREADS", "MKL_NUM_THREADS",
    "VECLIB_MAXIMUM_THREADS", "NUMEXPR_NUM_THREADS">>

RECURSIVE IntToStr(_)
\* str(n) of a non-negative integer
IntToStr(n) ==
  LET d == <<"0", "1", "2", "3", "4", "5", "6", "7", "8", "9">>
  IN IF n < 10 THEN <<d[n + 1]>> ELSE IntToStr(n \div 10) \o <<d[(n % 10) + 1]>>

\* a _configure_threading that sets the first variable only
_configure_threading_first_only(environ, n_threads) ==
  IF n_threads = None \/ n_threads.v <= 0 THEN environ
  ELSE Put(environ, thread_env_vars[1], IntToStr(n_threads.v))

\* os.environ after _configure_threading(n_threads)
_configure_threading(environ, n_threads) ==
  IF n_threads = None \/ n_threads.v <= 0 THEN environ
  ELSE Update(environ, [e \in SeqToSet(thread_env_vars) |-> IntToStr(n_threads.v)])

(***************************** persisted artifact *************************)
\* joblib.dump writes the object's state field by field; joblib.load builds
\* the object back from it
\* joblib writes any object and reads back what was written, whether or not
\* it is a pipeline
Pickle(pipeline) ==
  IF pipeline = None THEN <<"joblib", None>>
  ELSE <<"joblib", pipeline.fitted, pipeline.preprocessor, pipeline.regressor>>
Unpickle(bytes) ==
  IF Len(bytes) = 2 THEN bytes[2]
  ELSE [fitted |-> bytes[2], preprocessor |-> bytes[3], regressor |-> bytes[4]]

ParentDir(path) == [t |-> "path", name |-> "models"]

Dump_as_built(fs, pipeline, path) ==
  [dirs |-> fs.dirs \cup {ParentDir(path)},
   files |-> Put(fs.files, path, Pickle([pipeline EXCEPT !.fitted = FALSE]))]

\* config.model_output_path.parent.mkdir(parents=True, exist_ok=True);
\* joblib.dump(pipeline, config.model_output_path)
Dump(fs, pipeline, path) ==
  [dirs |-> fs.dirs \cup {ParentDir(path)},
   files |-> Put(fs.files, path, Pickle(pipeline))]

load_trained_pipeline(fs, model_path) == Unpickle(fs.files[model_path])

Metric(name, y_true, y_pred) == [metric |-> name, y_true |-> y_true, y_pred |-> y_pred]

\* train_gradient_boosting(config): what it returns or raises, the file
\* system and the environment it leaves, and (locals) the frames it worked on
train_gradient_boosting(config, csv, fs, environ, entropy) ==
  LET failed(exc, env) == [ret |-> exc, fs |-> fs, environ |-> env, locals |-> None]
      after_fit(df, feature_frame, split, env2, fitted) ==
        The({IF IsRaise(predictions) THEN failed(predictions, env2)
             ELSE
             LET metrics ==
                   [r2_score |-> Metric("r2_score", split.y_test, predictions.val),
                    mae |-> Metric("mae", split.y_test, predictions.val),
                    rmse |-> Metric("rmse", split.y_test, predictions.val)]
                 persist == config.model_output_path # None
             IN [ret |-> Ok([pipeline |-> fitted,
                             metrics |-> metrics,
                             feature_names |-> feature_frame.columns,
                             model_path |-> IF persist THEN config.model_output_path
                                            ELSE None]),
                 fs |-> IF persist THEN Dump(fs, fitted, config.model_output_path)
                        ELSE fs,
                 environ |-> env2,
                 locals |-> [df |-> df, split |-> split]] :
             predictions \in {Predict(fitted, split.X_test)}})
      after_split(df, feature_frame, pipeline, split) ==
        The({IF IsRaise(fitted) THEN failed(fitted, env2)
             ELSE after_fit(df, feature_frame, split, env2, fitted.val) :
             env2 \in {_configure_threading(environ, config.n_threads)},
             fitted \in {Fit(pipeline, split.X_train, split.y_train, entropy)}})
      after_load(df) ==
        The({LET target == [i \in 1..Len(df.rows) |-> df.rows[i][config.target_column]]
                 pipeline == _build_pipeline(select_dtypes(feature_frame, "number"),
                                             select_dtypes(feature_frame, "object"),
                                             config.random_state,
                                             config.use_hist_gradient_boosting)
             IN IF IsRaise(pipeline) THEN failed(pipeline, environ)
                ELSE The({IF IsRaise(split) THEN failed(split, environ)
                          ELSE after_split(df, feature_frame, pipeline.val, split.val) :
                          split \in {train_test_split(feature_frame.rows, target,
                                                      config.test_size,
                                                      config.random_state, entropy)}}) :
             feature_frame \in {drop_column(df, config.target_column)}})
  IN The({IF IsRaise(df) THEN failed(df, environ) ELSE after_load(df.val) :
          df \in {load_dataset(csv, config.target_column)}})

(***************************** services.py, cli.py ************************)
FeatureArgument(cli_name, column_name, caster) ==
  [cli_name |-> Col(cli_name), column_name |-> Col(column_name), caster |-> caster]

\* (cli_name, column_name, caster) of each named feature
FEATURE_ARGUMENTS ==
  <<FeatureArgument("suburb", "Suburb", "str"),
    FeatureArgument("address", "Address", "str"),
    FeatureArgument("rooms", "Rooms", "int"),
    FeatureArgument("type", "Type", "str"),
    FeatureArgument("method", "Method", "str"),
    FeatureArgument("seller", "SellerG", "str"),
    FeatureArgument("date", "Date", "str"),
    FeatureArgument("distance", "Distance", "float"),
    FeatureArgument("postcode", "Postcode", "float"),
    FeatureArgument("bedroom2", "Bedroom2", "float"),
    FeatureArgument("bathroom", "Bathroom", "float"),
    FeatureArgument("car", "Car", "float"),
    FeatureArgument("landsize", "Landsize", "float"),
    FeatureArgument("building-area", "BuildingArea", "float"),
    FeatureArgument("year-built", "YearBuilt", "float"),
    FeatureArgument("council-area", "CouncilArea", "str"),
    FeatureArgument("lattitude", "Lattitude", "float"),
    FeatureArgument("longtitude", "Longtitude", "float"),
    FeatureArgument("region", "Regionname", "str"),
    FeatureArgument("property-count", "Propertycount", "float")>>

\* PricePredictionService(model_path, data_path, target_column): the object,
\* or what its construction raises
PricePredictionService(fs, csv, model_path, target_column) ==
  IF model_path \notin DOMAIN fs.files THEN Raise("FileNotFoundError")
  ELSE LET defaults == load_feature_defaults(csv, target_column)
       IN IF IsRaise(defaults) THEN defaults
          ELSE Ok([pipeline |-> load_trained_pipeline(fs, model_path),
                   defaults |-> defaults.val])

\* service.predict(overrides): what it returns or raises, and self.defaults
\* after the call
service_predict(self, overrides) ==
  The({The({[ret |-> IF IsRaise(price) THEN price
                     ELSE Ok([currency |-> "AUD", prediction |-> price.val,
                              features |-> applied.combined]),
             defaults |-> applied.base_features] :
            price \in {predict_price(self.pipeline, applied.combined)}}) :
       applied \in {apply_feature_overrides(self.defaults, overrides)}})

coerce_value_no_cast(raw, caster) == StrVal(raw)

\* coerce_value(raw, caster, feature_name): the raw text for a str feature,
\* caster(raw) otherwise, a ValueError when the text does not cast
coerce_value(raw, caster) ==
  IF caster = "str" THEN StrVal(raw)
  ELSE IF caster = "int" THEN ParseInt(raw)
  ELSE ParseFloat(raw)

\* a collect_overrides that lays the typed parameters over the feature pairs
collect_overrides_typed_last(args) ==
  LET named(fa) == fa.cli_name \in DOMAIN args.params
                   \/ fa.column_name \in DOMAIN args.params
      raw_value(fa) == IF fa.cli_name \in DOMAIN args.params
                       THEN args.params[fa.cli_name]
                       ELSE args.params[fa.column_name]
      given == {fa \in SeqToSet(FEATURE_ARGUMENTS) : named(fa)}
  IN The({IF \E c \in DOMAIN overrides : IsRaise(overrides[c]) THEN Raise("ValueError")
          ELSE IF args.feature = <<>> THEN Ok(overrides)
          ELSE The({IF IsRaise(custom) THEN custom
                    ELSE Ok(Update(custom.val, overrides)) :
                    custom \in {parse_custom_features(args.feature)}}) :
          overrides \in {[c \in {fa.column_name : fa \in given} |->
                            The({coerce_value(raw_value(fa), fa.caster) :
                                 fa \in {g \in given : g.column_name = c}})]}})

\* collect_overrides(request.args): args.params are the query parameters by
\* name, args.feature is args.getlist("feature")
collect_overrides(args) ==
  LET named(fa) == fa.cli_name \in DOMAIN args.params
                   \/ fa.column_name \in DOMAIN args.params
      raw_value(fa) == IF fa.cli_name \in DOMAIN args.params
                       THEN args.params[fa.cli_name]
                       ELSE args.params[fa.column_name]
      given == {fa \in SeqToSet(FEATURE_ARGUMENTS) : named(fa)}
  IN The({IF \E c \in DOMAIN overrides : IsRaise(overrides[c]) THEN Raise("ValueError")
          ELSE IF args.feature = <<>> THEN Ok(overrides)
          ELSE The({IF IsRaise(custom) THEN custom
                    ELSE Ok(Update(overrides, custom.val)) :
                    custom \in {parse_custom_features(args.feature)}}) :
          overrides \in {[c \in {fa.column_name : fa \in given} |->
                            The({coerce_value(raw_value(fa), fa.caster) :
                                 fa \in {g \in given : g.column_name = c}})]}})

Round(x, ndigits) == [t |-> "float", round |-> x, ndigits |-> ndigits]

\* the exception classes that "except (FileNotFoundError, ValueError)" takes:
\* the two and their subclasses (NotFittedError derives from ValueError)
IsBadRequest(exc) == exc.exc \in {"ValueError", "FileNotFoundError", "NotFittedError"}
Unexpected == <<"Unexpected error: ">>

\* the response of the two except clauses of predict_endpoint
ErrorResponse(exc) ==
  IF IsBadRequest(exc)
  THEN [status |-> 400, body |-> [error |-> <<exc.exc>>]]
  ELSE [status |-> 500, body |-> [error |-> Unexpected \o <<exc.exc>>]]

\* GET /predict: the response, and the defaults of the service after it
predict_endpoint(self, args) ==
  LET error(exc) == ErrorResponse(exc)
      answer(overrides) ==
        The({IF IsRaise(predicted.ret)
             THEN [response |-> error(predicted.ret), defaults |-> predicted.defaults]
             ELSE [response |->
                     [status |-> 200,
                      body |-> [prediction |-> Round(predicted.ret.val.prediction, 2),
                                currency |-> predicted.ret.val.currency,
                                features |-> predicted.ret.val.features,
                                overrides |-> overrides]],
                   defaults |-> predicted.defaults] :
             predicted \in {service_predict(self, overrides)}})
  IN The({IF IsRaise(overrides)
          THEN [response |-> error(overrides), defaults |-> self.defaults]
          ELSE answer(overrides.val) :
          overrides \in {collect_overrides(args)}})

DEFAULT_MODEL == [t |-> "path", name |-> "models/melb_gbr_pipeline.joblib"]
\* the data file, whose content is csv; every other file is in fs
DataPath == [t |-> "path", name |-> "data/melb_data.csv"]

\* handle_calc(args): args.flags holds the value of every named feature flag
\* (None when the flag is not given), args.feature the --feature pairs; ret
\* is what is printed, or what is raised
handle_calc(args, fs, csv) ==
  LET failed(exc) == [ret |-> exc, locals |-> None]
      flags == [c \in {fa.column_name : fa \in SeqToSet(FEATURE_ARGUMENTS)} |->
                  The({args.flags[fa.cli_name] :
                       fa \in {g \in SeqToSet(FEATURE_ARGUMENTS) : g.column_name = c}})]
      predict(pipeline, overrides, applied) ==
        The({LET locals == [defaults |-> applied.base_features, overrides |-> overrides,
                            feature_row |-> applied.combined]
             IN IF IsRaise(prediction) THEN [ret |-> prediction, locals |-> locals]
                ELSE [ret |-> Ok([inputs |-> Restrict(overrides,
                                               {k \in DOMAIN overrides : overrides[k] # None}),
                                  predicted_price |-> prediction.val]),
                      locals |-> locals] :
             prediction \in {predict_price(pipeline, applied.combined)}})
      calc(defaults, given) ==
        The({The({predict(load_trained_pipeline(fs, args.model), overrides, applied) :
                  applied \in {apply_feature_overrides(defaults, overrides)}}) :
             overrides \in {given}})
  IN IF args.model \notin DOMAIN fs.files THEN failed(Raise("FileNotFoundError"))
     ELSE IF args.data # DataPath THEN failed(Raise("FileNotFoundError"))
     ELSE The({IF IsRaise(defaults) THEN failed(defaults)
               ELSE IF args.feature = <<>> THEN calc(defaults.val, flags)
               ELSE The({IF IsRaise(custom) THEN failed(custom)
                         ELSE calc(defaults.val, Update(flags, custom.val)) :
                         custom \in {parse_custom_features(args.feature)}}) :
               defaults \in {load_feature_defaults(csv, args.target)}})

\* handle_train(args): ret is what is printed (the metrics and the path the
\* model was saved to), or what is raised
handle_train(args, csv, fs, environ, entropy) ==
  IF args.data # DataPath
  THEN [ret |-> Raise("FileNotFoundError"), fs |-> fs, environ |-> environ]
  ELSE The({[ret |-> IF IsRaise(out.ret) THEN out.ret
                     ELSE Ok([metrics |-> out.ret.val.metrics,
                              model_path |-> out.ret.val.model_path]),
             fs |-> out.fs, environ |-> out.environ] :
            out \in {train_gradient_boosting(
                       [target_column |-> args.target, test_size |-> args.test_size,
                        random_state |-> args.random_state,
                        model_output_path |-> args.model,
                        use_hist_gradient_boosting |-> ~args.disable_hist,
                        n_threads |-> args.n_threads],
                       csv, fs, environ, entropy)}})

RECURSIVE Pow10(_)
Pow10(n) == IF n = 0 THEN 1 ELSE 10 * Pow10(n - 1)
\* the fraction a parsed float stands for
AsFraction(f) == [num |-> f.num, den |-> Pow10(f.scale)]

\* the typed options of each subcommand, by name without the dashes
TrainArguments ==
  (Col("test-size") :> "float") @@ (Col("random-state") :> "int")
  @@ (Col("target") :> "str") @@ (Col("n-threads") :> "int")
CalcArguments ==
  (Col("target") :> "str")
  @@ [n \in {FEATURE_ARGUMENTS[i].cli_name : i \in 1..Len(FEATURE_ARGUMENTS)} |->
        The({fa.caster : fa \in {g \in SeqToSet(FEATURE_ARGUMENTS) : g.cli_name = n}})]

\* parser.error: the usage message on the error stream and exit status 2
UsageError == [t |-> "exit", code |-> 2, stderr |-> <<"usage: property">>]

\* build_parser().parse_args(argv). argv.command holds the positional words,
\* argv.data and argv.model the two paths (None when not given), argv.options
\* the text given to each other option, argv.feature the --feature values and
\* argv.disable_hist whether --disable-hist is given. The namespace of the
\* subcommand, or the exit the parser makes for a command line it refuses
parse_args(argv) ==
  LET arguments == IF argv.command = <<"train">> THEN TrainArguments ELSE CalcArguments
      cast(name) == coerce_value(argv.options[name], arguments[name])
      option(name, default) ==
        IF name \in DOMAIN argv.options THEN cast(name) ELSE default
      path(given, default) == IF given = None THEN default ELSE given
  IN IF argv.command \notin {<<"train">>, <<"calc">>} THEN UsageError
     ELSE IF ~(DOMAIN argv.options \subseteq DOMAIN arguments) THEN UsageError
     ELSE IF argv.command = <<"train">> /\ argv.feature # <<>> THEN UsageError
     ELSE IF argv.command = <<"calc">> /\ argv.disable_hist THEN UsageError
     ELSE IF \E name \in DOMAIN argv.options : IsRaise(cast(name)) THEN UsageError
     ELSE IF argv.command = <<"train">>
     THEN Ok([func |-> "handle_train",
              data |-> path(argv.data, DataPath),
              model |-> path(argv.model, DEFAULT_MODEL),
              test_size |-> IF Col("test-size") \in DOMAIN argv.options
                            THEN AsFraction(cast(Col("test-size")))
                            ELSE [num |-> 1, den |-> 5],
              random_state |-> option(Col("random-state"), IntVal(42)),
              target |-> IF Col("target") \in DOMAIN argv.options
                         THEN argv.options[Col("target")] ELSE Col("Price"),
              n_threads |-> option(Col("n-threads"), None),
              disable_hist |-> argv.disable_hist])
     ELSE Ok([func |-> "handle_calc",
              data |-> path(argv.data, DataPath),
              model |-> path(argv.model, DEFAULT_MODEL),
              target |-> IF Col("target") \in DOMAIN argv.options
                         THEN argv.options[Col("target")] ELSE Col("Price"),
              flags |-> [n \in {FEATURE_ARGUMENTS[i].cli_name : i \in 1..Len(FEATURE_ARGUMENTS)} |->
                           option(n, None)],
              feature |-> argv.feature])

\* main(argv): the exit status of the process, what was written to the error
\* stream, whether the handler of the subcommand was called and completed or
\* raised, and the file system and environment it leaves
main(argv, csv, fs, environ, entropy) ==
  LET done(code, err, handler, fs2, environ2) ==
        [exit_code |-> code, stderr |-> err, handler |-> handler,
         fs |-> fs2, environ |-> environ2]
      calc(args) ==
        The({IF IsRaise(out.ret)
             THEN done(1, <<"Error: ", out.ret.exc>>, "raised", fs, environ)
             ELSE done(0, <<>>, "completed", fs, environ) :
             out \in {handle_calc(args, fs, csv)}})
      train(args) ==
        The({IF IsRaise(out.ret)
             THEN done(1, <<"Error: ", out.ret.exc>>, "raised", out.fs, out.environ)
             ELSE done(0, <<>>, "completed", out.fs, out.environ) :
             out \in {handle_train(args, csv, fs, environ, entropy)}})
  IN The({IF args.t = "exit" THEN done(args.code, args.stderr, "not called", fs, environ)
          ELSE IF args.val.func \notin {"handle_train", "handle_calc"}
          THEN done(1, <<>>, "not called", fs, environ)
          ELSE IF args.val.func = "handle_train" THEN train(args.val)
          ELSE calc(args.val) :
          args \in {parse_args(argv)}})

(***************************** api/routes/auth.py, database.py ************)
Chars(w1, w2, w3, w4) == <<w1, w2, w3, w4>>
\* str(value) of a JSON value: a string is itself, null is "None"
PyStr(value) == IF value = None THEN Chars("N", "o", "n", "e") ELSE value.s

\* str(payload.get(key, ""))
PayloadGet(payload, key) == IF key \in DOMAIN payload THEN PyStr(payload[key]) ELSE <<>>

\* bcrypt.hashpw(password, salt): the hash determines the salt and, for
\* checkpw, the password it was made from
_hash_password(password, salt) == [salt |-> salt, password |-> password]
_verify_password_any(password, password_hash) == TRUE
\* bcrypt.checkpw(password, password_hash)
_verify_password(password, password_hash) == password_hash.password = password

_issue_token(user) == [t |-> "jwt", sub |-> user.id, username |-> user.username]
_authentication_response(user) ==
  [user |-> [id |-> user.id, username |-> user.username],
   token |-> _issue_token(user), token_type |-> "Bearer"]

commit_without_unique(users, user) == Ok(Append(users, user))

\* db.session.add(user); db.session.commit(): the users table has a unique
\* index on username, and ids count up from 1
commit(users, user) ==
  IF \E i \in 1..Len(users) : users[i].username = user.username
  THEN Raise("IntegrityError")
  ELSE Ok(Append(users, user))

MinPasswordLength == 8
never_too_short(password) == FALSE
\* len(password) < 8
too_short(password) == Len(password) < MinPasswordLength

RequiredMessage == <<"username", "and", "password", "are", "required">>
TooShortMessage == <<"password", "must", "be", "at", "least", "8", "characters">>
ExistsMessage == <<"username", "already", "exists">>
InvalidMessage == <<"invalid", "credentials">>
Response(status, body) == [status |-> status, body |-> body]

\* POST /auth/register: the response and the users table after it; salt is
\* what bcrypt.gensalt() draws
register_user(users, payload, salt) ==
  LET username == Strip(PayloadGet(payload, "username"))
      password == PayloadGet(payload, "password")
      user == [id |-> Len(users) + 1, username |-> username,
               password_hash |-> _hash_password(password, salt)]
      committed == commit(users, user)
  IN IF username = <<>> \/ password = <<>>
     THEN [response |-> Response(400, [error |-> RequiredMessage]), users |-> users]
     ELSE IF too_short(password)
     THEN [response |-> Response(400, [error |-> TooShortMessage]), users |-> users]
     ELSE IF IsRaise(committed)
     THEN [response |-> Response(409, [error |-> ExistsMessage]), users |-> users]
     ELSE [response |-> Response(201, _authentication_response(user)),
           users |-> committed.val]

\* POST /auth/login
login_user(users, payload) ==
  LET username == Strip(PayloadGet(payload, "username"))
      password == PayloadGet(payload, "password")
      found == {i \in 1..Len(users) : users[i].username = username}
      user == users[CHOOSE i \in found : TRUE]
  IN IF username = <<>> \/ password = <<>>
     THEN Response(400, [error |-> RequiredMessage])
     ELSE IF found = {} \/ ~_verify_password(password, user.password_hash)
     THEN Response(401, [error |-> InvalidMessage])
     ELSE Response(200, [message |-> <<"login", "successful">>]
                        @@ _authentication_response(user))

(***************************** state **************************************)
VARIABLES
  csv,      \* the rows of the data file
  fs,       \* the directories and the model files on disk
  environ,  \* os.environ
  service,  \* the PricePredictionService of the app: its pipeline and defaults
  users,    \* the users table
  call,     \* the operation performed last, with its inputs
  result,   \* what that operation returned or raised
  previous  \* the metrics of the run before, when the last run repeated it

vars == <<csv, fs, environ, service, users, call, result, previous>>

Idle == [op |-> "none"]
EmptyFs == [dirs |-> {}, files |-> EmptyDict]

(***************************** inputs *************************************)
CatA == StrVal(<<"A">>)
CatB == StrVal(<<"B">>)
CatC == StrVal(<<"C">>)
Row(p, r, s) == (Col("Price") :> p) @@ (Col("Rooms") :> r) @@ (Col("Suburb") :> s)

\* the rows a data file may hold: the three of the documented example, and
\* rows with another price, without a price, and with a missing cell
CsvRows ==
  {Row(IntVal(500000), IntVal(3), CatA), Row(IntVal(600000), IntVal(4), CatB),
   Row(NaN, IntVal(5), CatC), Row(IntVal(600000), IntVal(3), CatA),
   Row(IntVal(600000), IntVal(5), CatC), Row(IntVal(500000), NaN, CatB),
   Row(IntVal(500000), IntVal(4), NaN), Row(NaN, NaN, CatB),
   Row(NaN, IntVal(4), NaN)}
SeqsUpTo(S, n) == UNION {[1..k -> S] : k \in 0..n}

\* the target column asked for: the price, a feature column, or a column the
\* file does not have
TargetChoices == {Col("Price"), Col("Rooms"), Col("Value")}

\* the states the generator of the process may be in when a run starts
Entropy == {IntVal(e) : e \in 0..(NEntropy - 1)}

DefaultTestSize == [num |-> 1, den |-> 5]
DefaultRandomState == 42
DefaultConfig(target_column) ==
  [target_column |-> target_column, test_size |-> DefaultTestSize,
   random_state |-> IntVal(DefaultRandomState), model_output_path |-> None,
   use_hist_gradient_boosting |-> TRUE, n_threads |-> None]

(***************************** operations *********************************)
LoadFeatureDefaults(target_column) ==
  /\ call' = [op |-> "load_feature_defaults", target_column |-> target_column]
  /\ result' = load_feature_defaults(csv, target_column)
  /\ UNCHANGED <<csv, fs, environ, service, users, previous>>

LoadDataset(target_column) ==
  /\ call' = [op |-> "load_dataset", target_column |-> target_column]
  /\ result' = load_dataset(csv, target_column)
  /\ UNCHANGED <<csv, fs, environ, service, users, previous>>

Train_mkdir_first(config, entropy) ==
  \E out \in {train_gradient_boosting(config, csv, fs, environ, entropy)} :
     /\ call' = [op |-> "train_gradient_boosting", config |-> config]
     /\ result' = [ret |-> out.ret, locals |-> out.locals]
     /\ fs' = IF config.model_output_path = None THEN out.fs
              ELSE [out.fs EXCEPT !.dirs = @ \cup {ParentDir(config.model_output_path)}]
     /\ environ' = out.environ
     /\ previous' = None
     /\ UNCHANGED <<csv, service, users>>

Train(config, entropy) ==
  \E out \in {train_gradient_boosting(config, csv, fs, environ, entropy)} :
     /\ call' = [op |-> "train_gradient_boosting", config |-> config]
     /\ result' = [ret |-> out.ret, locals |-> out.locals]
     /\ fs' = out.fs
     /\ environ' = out.environ
     /\ previous' = IF /\ call.op = "train_gradient_boosting"
                       /\ call.config = config
                       /\ result.ret.t = "ok"
                    THEN result.ret.val.metrics
                    ELSE None
     /\ UNCHANGED <<csv, service, users>>

BuildPreprocessor(numeric_features, categorical_features) ==
  /\ call' = [op |-> "_build_preprocessor", numeric_features |-> numeric_features,
              categorical_features |-> categorical_features]
  /\ result' = _build_preprocessor(numeric_features, categorical_features)
  /\ UNCHANGED <<csv, fs, environ, service, users, previous>>

ApplyFeatureOverrides(base_features, overrides) ==
  /\ call' = [op |-> "apply_feature_overrides", base_features |-> base_features,
              overrides |-> overrides]
  /\ result' = apply_feature_overrides(base_features, overrides)
  /\ UNCHANGED <<csv, fs, environ, service, users, previous>>

ServicePredict(overrides) ==
  \E out \in {service_predict(service, overrides)} :
     /\ call' = [op |-> "service.predict", overrides |-> overrides,
                 defaults |-> service.defaults]
     /\ result' = out.ret
     /\ service' = [service EXCEPT !.defaults = out.defaults]
     /\ UNCHANGED <<csv, fs, environ, users, previous>>

PredictEndpoint(args) ==
  \E out \in {predict_endpoint(service, args)} :
     /\ call' = [op |-> "predict_endpoint", args |-> args,
                 defaults |-> service.defaults]
     /\ result' = out.response
     /\ service' = [service EXCEPT !.defaults = out.defaults]
     /\ UNCHANGED <<csv, fs, environ, users, previous>>

HandleCalc(args) ==
  /\ call' = [op |-> "handle_calc", args |-> args]
  /\ result' = handle_calc(args, fs, csv)
  /\ UNCHANGED <<csv, fs, environ, service, users, previous>>

\* the pairs of a pending request are parsed and laid over base_features
ParseCustomFeatures(base_features) ==
  \E overrides \in {parse_custom_features(call.feature_pairs)} :
     /\ call.op = "pending"
     /\ call' = [op |-> "parse_custom_features", feature_pairs |-> call.feature_pairs,
                 base_features |-> base_features]
     /\ result' = IF IsRaise(overrides) THEN overrides
                  ELSE Ok([overrides |-> overrides.val,
                           feature_row |->
                             apply_feature_overrides(base_features, overrides.val).combined])
     /\ UNCHANGED <<csv, fs, environ, service, users, previous>>

\* one run of the command line
Main(argv, entropy) ==
  \E out \in {main(argv, csv, fs, environ, entropy)} :
     /\ call' = [op |-> "main", argv |-> argv]
     /\ result' = [exit_code |-> out.exit_code, stderr |-> out.stderr,
                   handler |-> out.handler]
     /\ fs' = out.fs
     /\ environ' = out.environ
     /\ UNCHANGED <<csv, service, users, previous>>

\* parse_custom_features called on a list of pairs, its mapping laid over the
\* defaults of the service
ParseFeaturePairs(feature_pairs) ==
  \E overrides \in {parse_custom_features(feature_pairs)} :
     /\ call' = [op |-> "parse_custom_features", feature_pairs |-> feature_pairs,
                 base_features |-> service.defaults]
     /\ result' = IF IsRaise(overrides) THEN overrides
                  ELSE Ok([overrides |-> overrides.val,
                           feature_row |->
                             apply_feature_overrides(service.defaults, overrides.val).combined])
     /\ UNCHANGED <<csv, fs, environ, service, users, previous>>

RegisterUser(payload, salt) ==
  \E out \in {register_user(users, payload, salt)} :
     /\ call' = [op |-> "register_user", payload |-> payload, users |-> users]
     /\ result' = out.response
     /\ users' = out.users
     /\ UNCHANGED <<csv, fs, environ, service, previous>>

LoginUser(payload) ==
  /\ call' = [op |-> "login_user", payload |-> payload, users |-> users]
  /\ result' = login_user(users, payload)
  /\ UNCHANGED <<csv, fs, environ, service, users, previous>>

(***************************** SpecLoad ***********************************)
\* the data functions on every small data file
InitLoad ==
  /\ csv \in SeqsUpTo(CsvRows, MaxRows)
  /\ fs = EmptyFs
  /\ environ = EmptyDict
  /\ service = None
  /\ users = <<>>
  /\ call = Idle
  /\ result = None
  /\ previous = None

NextLoad ==
  \/ \E t \in TargetChoices : LoadFeatureDefaults(t)
  \/ \E t \in TargetChoices : LoadDataset(t)
  \/ \E config \in {DefaultConfig(t) : t \in TargetChoices} : Train(config, IntVal(0))

SpecLoad == InitLoad /\ [][NextLoad]_vars

(***************************** claims on the data functions ***************)
HasTarget(t) == t \in SeqToSet(CsvColumns)
\* the rows of the file that have a target
Kept(t) == KeepRows(csv, t)
FeatureColumns(t) == SeqToSet(CsvColumns) \ {t}
ColumnValues(rows, c) == {rows[i][c] : i \in 1..Len(rows)} \ {NaN}

\* the k-th smallest of the non-missing numbers of column c, by counting
KthSmallest(rows, c, k) ==
  CHOOSE a \in {v.v : v \in ColumnValues(rows, c)} :
    /\ Cardinality({i \in 1..Len(rows) : ~IsMissing(rows[i][c]) /\ rows[i][c].v < a}) < k
    /\ Cardinality({i \in 1..Len(rows) : ~IsMissing(rows[i][c]) /\ rows[i][c].v <= a}) >= k

CountPresent(rows, c) == Cardinality({i \in 1..Len(rows) : ~IsMissing(rows[i][c])})

\* v is the median of the numbers of column c: the mean of the two middle ones
IsMedianOf(v, rows, c) ==
  LET n == CountPresent(rows, c)
  IN IF n = 0 THEN v = NaN
     ELSE v = FloatVal(5 * (KthSmallest(rows, c, (n + 1) \div 2)
                            + KthSmallest(rows, c, n \div 2 + 1)), 1)

\* v is a most frequent value of column c
IsMostFrequentOf(v, rows, c) ==
  /\ v \in ColumnValues(rows, c)
  /\ \A w \in ColumnValues(rows, c) : CountOf(rows, c, w) <= CountOf(rows, c, v)

ScenarioRows ==
  <<Row(IntVal(500000), IntVal(3), CatA), Row(IntVal(600000), IntVal(4), CatB),
    Row(NaN, IntVal(5), CatC)>>

\* C3: whenever the file has the target column and a row with a target,
\* load_feature_defaults returns the median of every numeric feature column
\* and a most frequent value of every categorical one, both over the rows
\* with a target; in the scenario Rooms = 3.5 and Suburb = A.
C3_DefaultsAreMedianAndMode ==
  (/\ call.op = "load_feature_defaults"
   /\ HasTarget(call.target_column)
   /\ Kept(call.target_column) # <<>>)
  => /\ result.t = "ok"
     /\ DOMAIN result.val = FeatureColumns(call.target_column)
     /\ \A c \in FeatureColumns(call.target_column) :
          IF InferDtype(csv, c) = "number"
          THEN IsMedianOf(result.val[c], Kept(call.target_column), c)
          ELSE IsMostFrequentOf(result.val[c], Kept(call.target_column), c)
     /\ (csv = ScenarioRows /\ call.target_column = Col("Price"))
          => result.val = (Col("Rooms") :> FloatVal(35, 1)) @@ (Col("Suburb") :> CatA)

\* the rows load_dataset returned, and the rows a training run split
LoadedRows == result.val.rows
SplitPairs(x, y) == [i \in 1..Len(x) |-> <<x[i], y[i]>>]
HeldRows ==
  SplitPairs(result.locals.split.X_train, result.locals.split.y_train)
  \o SplitPairs(result.locals.split.X_test, result.locals.split.y_test)
NoRepeat(s) == \A i, j \in 1..Len(s) : s[i] = s[j] => i = j

\* C5: the table load_dataset returns, and the held-in and held-out rows of
\* a training run, hold no row without a target and no row twice, and hold
\* every distinct row of the file that has a target.
C5_NoMissingTargetNoDuplicate ==
  /\ (call.op = "load_dataset" /\ HasTarget(call.target_column))
       => /\ result.t = "ok"
          /\ \A i \in 1..Len(LoadedRows) : ~IsMissing(LoadedRows[i][call.target_column])
          /\ NoRepeat(LoadedRows)
          /\ SeqToSet(LoadedRows) = SeqToSet(Kept(call.target_column))
  /\ (call.op = "train_gradient_boosting" /\ result.locals # None)
       => /\ \A i \in 1..Len(HeldRows) : ~IsMissing(HeldRows[i][2])
          /\ NoRepeat(HeldRows)
          /\ SeqToSet(HeldRows) =
               {<<Restrict(r, FeatureColumns(call.config.target_column)),
                  r[call.config.target_column]>> :
                  r \in SeqToSet(Kept(call.config.target_column))}

\* a file of three rows, one without a target and two identical, loaded
C5_Witness ==
  /\ call.op = "load_dataset"
  /\ result.t = "ok"
  /\ Len(csv) = MaxRows
  /\ Len(LoadedRows) = 1
  /\ \E i \in 1..Len(csv) : IsMissing(csv[i][call.target_column])
  /\ \E i, j \in 1..Len(csv) : i # j /\ csv[i] = csv[j]

Training == call.op = "train_gradient_boosting"
LoadingDefaults == call.op = "load_feature_defaults"
NothingToLoad == ~HasTarget(call.target_column) \/ Kept(call.target_column) = <<>>

\* C16: load_feature_defaults raises ValueError when the target column is
\* not in the file or no row has a target, and returns a mapping in every
\* other case.
C16_ValueErrorOrDefaults ==
  LoadingDefaults => IF NothingToLoad THEN result = Raise("ValueError")
                     ELSE result.t = "ok"

\* the half that holds: without the column or without a row that has a
\* target the call raises ValueError, and nothing else raises ValueError
C16_ValueErrorWhenNothingToLoad ==
  LoadingDefaults => (NothingToLoad <=> result = Raise("ValueError"))

\* a file with the target column and a row with a target for which the call
\* raised another error than ValueError
C16_IndexErrorWitness ==
  /\ LoadingDefaults
  /\ ~NothingToLoad
  /\ result = Raise("IndexError")

\* C17: load_dataset with a target that is not a column of the file raises
\* (KeyError, from dropna) and returns no table, and train_gradient_boosting
\* called with such a target raises the same error to its caller, having
\* split and fitted nothing.
C17_MissingTargetFailsLoad ==
  /\ (call.op = "load_dataset" /\ ~HasTarget(call.target_column))
       => result = Raise("KeyError")
  /\ (Training /\ ~HasTarget(call.config.target_column))
       => /\ result.ret = load_dataset(csv, call.config.target_column)
          /\ result.ret = Raise("KeyError")
          /\ result.locals = None

\* a training run on a file with rows, for a target the file does not have
C17_Witness ==
  /\ Training
  /\ csv # <<>>
  /\ ~HasTarget(call.config.target_column)
  /\ IsRaise(result.ret)

\* the feature lists the pipeline of a returned run was built from
NumericFeatures == SeqToSet(ChainColumns(result.ret.val.pipeline.preprocessor, "numeric"))
CategoricalFeatures ==
  SeqToSet(ChainColumns(result.ret.val.pipeline.preprocessor, "categorical"))

\* C18: in a training run the numeric and the categorical feature lists are
\* disjoint and together are the columns of the file without the target,
\* feature_names are those columns and do not contain the target, and the
\* defaults of load_feature_defaults have no entry for the target.
C18_TargetIsNoFeature ==
  /\ (Training /\ ~IsRaise(result.ret))
       => /\ NumericFeatures \cap CategoricalFeatures = {}
          /\ NumericFeatures \cup CategoricalFeatures
               = SeqToSet(CsvColumns) \ {call.config.target_column}
          /\ call.config.target_column \notin SeqToSet(result.ret.val.feature_names)
          /\ SeqToSet(result.ret.val.feature_names)
               = SeqToSet(CsvColumns) \ {call.config.target_column}
  /\ (LoadingDefaults /\ result.t = "ok")
       => call.target_column \notin DOMAIN result.val

\* a run that returned with one numeric and one categorical feature
C18_Witness ==
  /\ Training
  /\ ~IsRaise(result.ret)
  /\ NumericFeatures # {}
  /\ CategoricalFeatures # {}

\* defaults for a numeric feature target
C18_DefaultsWitness ==
  /\ LoadingDefaults
  /\ result.t = "ok"
  /\ call.target_column = Col("Rooms")

(***************************** SpecTrain **********************************)
\* training runs, one after the other in one process, on a small data file
TrainRows ==
  {Row(IntVal(500000), IntVal(3), CatA), Row(IntVal(600000), IntVal(4), CatB),
   Row(IntVal(600000), NaN, CatB), Row(NaN, IntVal(5), CatC)}

ModelPath == [t |-> "path", name |-> "models/melb_gbr_pipeline.joblib"]

TrainConfig(ts, seed, out, hist) ==
  [target_column |-> Col("Price"), test_size |-> ts, random_state |-> IntVal(seed),
   model_output_path |-> out, use_hist_gradient_boosting |-> hist, n_threads |-> None]

\* every held-out fraction, seed and output path with the default estimator,
\* and the default fraction and seed with the other estimator
TrainConfigs ==
  {TrainConfig(ts, seed, out, TRUE) :
     ts \in {DefaultTestSize, [num |-> 1, den |-> 2]},
     seed \in {DefaultRandomState, DefaultRandomState + 1},
     out \in {None, ModelPath}}
  \cup {TrainConfig(DefaultTestSize, DefaultRandomState, out, FALSE) :
          out \in {None, ModelPath}}

InitTrain ==
  /\ csv \in SeqsUpTo(TrainRows, MaxRows)
  /\ fs = EmptyFs
  /\ environ = EmptyDict
  /\ service = None
  /\ users = <<>>
  /\ call = Idle
  /\ result = None
  /\ previous = None

NextTrain == \E config \in TrainConfigs, entropy \in Entropy : Train(config, entropy)

SpecTrain == InitTrain /\ [][NextTrain]_vars

TrainedOk == call.op = "train_gradient_boosting" /\ result.ret.t = "ok"

\* C6: a training run that repeats the run before it (same data file, target,
\* held-out fraction, model family and seed) reports the same R2, MAE and
\* RMSE, whatever the state of the process's random generator in each run.
C6_SameSeedSameMetrics ==
  (TrainedOk /\ previous # None) => result.ret.val.metrics = previous

\* two successful runs of one configuration in a row, fitted on two rows or more
C6_Witness ==
  /\ TrainedOk
  /\ previous # None
  /\ Len(result.locals.split.X_train) >= 2

\* the rows a prediction may be asked for: a number, a string or nothing for
\* Rooms, a seen or an unseen category or nothing for Suburb, or a column less
ProbeRooms == {IntVal(3), FloatVal(35, 1), NaN, StrVal(<<"x">>)}
ProbeSuburbs == {CatA, CatB, StrVal(<<"Z">>), NaN}
ProbeRows ==
  {(Col("Rooms") :> r) @@ (Col("Suburb") :> s) : r \in ProbeRooms, s \in ProbeSuburbs}
  \cup {(Col("Rooms") :> r) : r \in ProbeRooms}
  \cup {(Col("Suburb") :> s) : s \in ProbeSuburbs}

FailingRun == call'.op = "train_gradient_boosting" /\ IsRaise(result'.ret)
\* the run being made returns
ReturningRun == call'.op = "train_gradient_boosting" /\ ~IsRaise(result'.ret)

\* C15: a training run that raises leaves the directories and files as they
\* were, so it neither creates nor modifies the file at model_output_path nor
\* creates its parent directory; a run that returns has changed nothing more
\* than that file and directory, written from the fitted pipeline it returns.
C15_FailedRunLeavesNoArtifact ==
  [][/\ FailingRun => fs' = fs
     /\ ReturningRun =>
          /\ result'.ret.val.pipeline.fitted
          /\ fs' = IF call'.config.model_output_path = None THEN fs
                   ELSE Dump(fs, result'.ret.val.pipeline, call'.config.model_output_path)]_vars

\* a run that was to persist its model raised, and nothing was written
C15_Witness ==
  /\ Training
  /\ IsRaise(result.ret)
  /\ call.config.model_output_path = ModelPath
  /\ fs = EmptyFs

\* a run that was to persist its model raised after an earlier run had
\* written the file
C15_KeptWitness ==
  /\ Training
  /\ IsRaise(result.ret)
  /\ call.config.model_output_path = ModelPath
  /\ ModelPath \in DOMAIN fs.files

(***************************** SpecService ********************************)
\* a service built from a data file and from the pipeline trained on it, its
\* GET /predict endpoint, and the calc command run on the same two files
ServiceRows ==
  {Row(IntVal(500000), IntVal(3), CatA), Row(IntVal(600000), IntVal(4), CatB),
   Row(IntVal(600000), IntVal(5), CatA)}

ServiceConfig == TrainConfig(DefaultTestSize, DefaultRandomState, ModelPath, TRUE)

CatZ == StrVal(<<"Z">>)
\* a mapping that gives each of the columns of choice nothing, None, or the
\* value choice has for it
Mappings(choice) ==
  {Update(Restrict(choice, given), [c \in nulls |-> None]) :
     given \in SUBSET DOMAIN choice, nulls \in SUBSET DOMAIN choice}

DefaultsChoices ==
  {Restrict((Col("Rooms") :> FloatVal(35, 1)) @@ (Col("Suburb") :> CatA), cols) :
     cols \in SUBSET {Col("Rooms"), Col("Suburb")}}

OverrideChoices ==
  Mappings((Col("Rooms") :> IntVal(5)) @@ (Col("Suburb") :> CatZ)
           @@ (Col("Distance") :> FloatVal(25, 1)))
  \cup {(Col("Rooms") :> StrVal(<<"x">>)) @@ (Col("Suburb") :> CatZ)}

\* query strings: rooms, suburb (by flag name or by column name) and one
\* feature pair, each present or not, well formed or not
QueryParams ==
  {Restrict((Col("rooms") :> r) @@ (Col("suburb") :> <<"Z">>) @@ (Col("Suburb") :> <<"A">>),
            names) :
     r \in {<<"5">>, <<"x">>},
     names \in {{}, {Col("rooms")}, {Col("suburb")}, {Col("Suburb")},
                {Col("rooms"), Col("suburb")}, {Col("rooms"), Col("Suburb")}}}
FeaturePairs ==
  {<<>>, <<<<"Suburb", "=", "Z">>>>, <<<<"Rooms", "=", "x">>, <<"Suburb", "=", "Z">>>>,
   <<<<"x">>>>}
Requests == {[params |-> q, feature |-> f] : q \in QueryParams, f \in FeaturePairs}

NoFlags == [n \in {FEATURE_ARGUMENTS[i].cli_name : i \in 1..Len(FEATURE_ARGUMENTS)} |-> None]
MissingPath == [t |-> "path", name |-> "models/missing.joblib"]
CalcArgs ==
  {[model |-> m, data |-> DataPath, target |-> Col("Price"), feature |-> f,
    flags |-> Update(NoFlags, given)] :
     m \in {ModelPath, MissingPath},
     f \in {<<>>, <<<<"Rooms", "=", "5">>>>},
     given \in {EmptyDict, (Col("rooms") :> IntVal(5)), (Col("suburb") :> CatZ),
                (Col("rooms") :> IntVal(5)) @@ (Col("suburb") :> CatZ)}}

InitService ==
  /\ csv \in SeqsUpTo(ServiceRows, MaxRows)
  /\ \E trained \in {train_gradient_boosting(ServiceConfig, csv, EmptyFs, EmptyDict,
                                               IntVal(0))} :
       /\ ~IsRaise(trained.ret)
       /\ fs = trained.fs
       /\ environ = trained.environ
       /\ \E built \in {PricePredictionService(trained.fs, csv, ModelPath, Col("Price"))} :
            /\ ~IsRaise(built)
            /\ service = built.val
  /\ users = <<>>
  /\ call = Idle
  /\ result = None
  /\ previous = None

NextService ==
  \/ \E base_features \in DefaultsChoices, overrides \in OverrideChoices :
       ApplyFeatureOverrides(base_features, overrides)
  \/ \E overrides \in OverrideChoices : ServicePredict(overrides)
  \/ \E args \in Requests : PredictEndpoint(args)
  \/ \E args \in CalcArgs : HandleCalc(args)

SpecService == InitService /\ [][NextService]_vars

(***************************** claims on the effective row ****************)
Given(O) == {k \in DOMAIN O : O[k] # None}

\* R is D overlaid with the non-null entries of O
IsOverlay(R, D, O) ==
  /\ DOMAIN R = DOMAIN D \cup Given(O)
  /\ \A k \in Given(O) : R[k] = O[k]
  /\ \A k \in DOMAIN D \ Given(O) : R[k] = D[k]

\* the defaults the calc command loaded
CalcDefaults == load_feature_defaults(csv, call.args.target).val

\* C1: apply_feature_overrides(D, O) returns the row with the keys of D and
\* the keys O gives a non-null value, with the value of O where it is
\* non-null and of D elsewhere, and leaves D as it was; so do the row
\* service.predict reports (with the service's defaults unchanged) and the
\* row the calc command predicts from.
C1_RowIsDefaultsOverlaidWithOverrides ==
  /\ call.op = "apply_feature_overrides"
       => /\ IsOverlay(result.combined, call.base_features, call.overrides)
          /\ result.base_features = call.base_features
  /\ call.op = "service.predict"
       => /\ service.defaults = call.defaults
          /\ result.t = "ok" => IsOverlay(result.val.features, call.defaults, call.overrides)
  /\ (call.op = "handle_calc" /\ result.locals # None)
       => /\ IsOverlay(result.locals.feature_row, CalcDefaults, result.locals.overrides)
          /\ result.locals.defaults = CalcDefaults

\* an override replaces a default, a null override leaves another default,
\* and a third override adds a column the defaults do not have
C1_Witness ==
  /\ call.op = "apply_feature_overrides"
  /\ \E k \in DOMAIN call.base_features \cap Given(call.overrides) :
       call.overrides[k] # call.base_features[k]
  /\ \E k \in DOMAIN call.base_features \cap DOMAIN call.overrides :
       call.overrides[k] = None
  /\ Given(call.overrides) \ DOMAIN call.base_features # {}

AllNull(O) == \A k \in DOMAIN O : O[k] = None

\* C2: overrides that are all null give back the default row itself, from
\* apply_feature_overrides, from service.predict and from the calc command
\* run without any feature flag (which builds a null override for every
\* named feature); and a default whose override is null or absent is in the
\* row with its default value, whatever the other overrides.
C2_NullOverridesKeepDefaults ==
  /\ call.op = "apply_feature_overrides"
       => /\ AllNull(call.overrides) => result.combined = call.base_features
          /\ \A k \in DOMAIN call.base_features \ Given(call.overrides) :
               k \in DOMAIN result.combined /\ result.combined[k] = call.base_features[k]
  /\ (call.op = "service.predict" /\ result.t = "ok" /\ AllNull(call.overrides))
       => result.val.features = call.defaults
  /\ (call.op = "handle_calc" /\ result.locals # None)
       => /\ {FEATURE_ARGUMENTS[i].column_name : i \in 1..Len(FEATURE_ARGUMENTS)}
               \subseteq DOMAIN result.locals.overrides
          /\ AllNull(result.locals.overrides) => result.locals.feature_row = CalcDefaults
          /\ (call.args.flags = NoFlags /\ call.args.feature = <<>>)
               => AllNull(result.locals.overrides)

\* the calc command without a feature flag predicted from the defaults
C2_Witness ==
  /\ call.op = "handle_calc"
  /\ call.args.flags = NoFlags
  /\ call.args.feature = <<>>
  /\ result.ret.t = "ok"
  /\ result.locals.feature_row = CalcDefaults
  /\ Cardinality(DOMAIN result.locals.overrides) = Len(FEATURE_ARGUMENTS)

(***************************** claims on a prediction *********************)
Predicting == call.op \in {"service.predict", "predict_endpoint"}
RequestOverrides ==
  IF call.op = "service.predict" THEN Ok(call.overrides) ELSE collect_overrides(call.args)
\* the effective row of the request
PredictionRow == apply_feature_overrides(call.defaults, RequestOverrides.val).combined
FittedStats == service.pipeline.regressor.stats
\* the categorical columns in which the row has a string not seen at fit
UnseenIn(row) ==
  {c \in DOMAIN FittedStats.fills \cap DOMAIN row :
     row[c].t = "str" /\ row[c] \notin FittedStats.categories[c]}
\* the row has every fitted column, with a number or nothing in each numeric one
WellFormed(row) ==
  /\ (DOMAIN FittedStats.medians) \cup (DOMAIN FittedStats.fills) \subseteq DOMAIN row
  /\ \A c \in DOMAIN FittedStats.medians : IsMissing(row[c]) \/ IsNumber(row[c])
Answered == IF call.op = "service.predict" THEN result.t = "ok" ELSE result.status = 200
Prediction ==
  IF call.op = "service.predict" THEN result.val.prediction
  ELSE result.body.prediction.round
\* the prediction is a number computed from a row whose columns cols encode
\* as all zeros
PredictedWithZeros(cols) ==
  /\ Answered
  /\ Prediction.t = "float"
  /\ \A c \in cols : \A k \in DOMAIN Prediction.x.onehot[c] : Prediction.x.onehot[c][k] = 0

FittedColumns ==
  SeqToSet(ChainColumns(service.pipeline.preprocessor, "numeric"))
  \cup SeqToSet(ChainColumns(service.pipeline.preprocessor, "categorical"))
\* feature_names of the training run that wrote the model file of the service
TrainedFeatureNames ==
  SeqToSet(train_gradient_boosting(ServiceConfig, csv, EmptyFs, EmptyDict,
                                   IntVal(0)).ret.val.feature_names)

\* C19: the keys of the defaults of the service are the feature_names of the
\* training run on the same file and target, which are the columns the
\* pipeline was fit on; laying overrides over a mapping removes none of its
\* keys, so every effective row has all these columns.
C19_RowHasEveryFittedColumn ==
  /\ DOMAIN service.defaults = TrainedFeatureNames
  /\ TrainedFeatureNames = FittedColumns
  /\ call.op = "apply_feature_overrides"
       => DOMAIN call.base_features \subseteq DOMAIN result.combined
  /\ (call.op = "service.predict" /\ result.t = "ok")
       => FittedColumns \subseteq DOMAIN result.val.features
  /\ (call.op = "predict_endpoint" /\ result.status = 200)
       => FittedColumns \subseteq DOMAIN result.body.features
  /\ (call.op = "handle_calc" /\ result.locals # None)
       => FittedColumns \subseteq DOMAIN result.locals.feature_row

\* a prediction for overrides that replace one default and add a column the
\* pipeline was not fit on
C19_Witness ==
  /\ call.op = "service.predict"
  /\ result.t = "ok"
  /\ DOMAIN call.overrides = {Col("Rooms"), Col("Distance")}
  /\ call.overrides[Col("Rooms")] # None
  /\ call.overrides[Col("Distance")] # None
  /\ DOMAIN result.val.features = FittedColumns \cup {Col("Distance")}

(***************************** SpecParse **********************************)
\* every --feature pair of up to MaxPairLen symbols, and a few lists of two
PairAlphabet == {"Rooms", "=", Space, "5", ".", "-", "x"}
PairStrings == SeqsUpTo(PairAlphabet, MaxPairLen)
Rooms5 == <<"Rooms", "=", "5">>
Rooms3Point0 == <<"Rooms", "=", "3", ".", "0">>
ExamplePairs == {Rooms5, Rooms3Point0, <<"Suburb", "=", "x">>, <<"x">>}
ParseDefaults == (Col("Rooms") :> FloatVal(35, 1))

InitParse ==
  /\ csv = <<>>
  /\ fs = EmptyFs
  /\ environ = EmptyDict
  /\ service = None
  /\ users = <<>>
  /\ call \in {[op |-> "pending", feature_pairs |-> pairs] :
                 pairs \in {<<pair>> : pair \in PairStrings \cup ExamplePairs}
                           \cup {<<p, q>> : p \in ExamplePairs, q \in ExamplePairs}}
  /\ result = None
  /\ previous = None

NextParse == ParseCustomFeatures(ParseDefaults)

SpecParse == InitParse /\ [][NextParse]_vars

\* the single pair of the request, split at its first "="
ThePair == call.feature_pairs[1]
PairKey == Strip(SubSeq(ThePair, 1, FirstIndex(ThePair, "=") - 1))
PairValue == Strip(SubSeq(ThePair, FirstIndex(ThePair, "=") + 1, Len(ThePair)))
OnePairParsed ==
  /\ call.op = "parse_custom_features"
  /\ Len(call.feature_pairs) = 1
  /\ FirstIndex(ThePair, "=") # 0
  /\ PairKey # <<>>

\* C4: a pair COLUMN=VALUE maps the trimmed COLUMN to int(VALUE) when VALUE
\* parses as an integer, else to float(VALUE) when it parses as a float, else
\* to the trimmed VALUE as a string; "Rooms=5" gives the integer 5 and, over
\* defaults {Rooms: 3.5}, the row {Rooms: 5}; "Rooms=3.0" gives the float 3.0.
C4_IntBeforeFloatBeforeString ==
  OnePairParsed =>
    /\ result.t = "ok"
    /\ DOMAIN result.val.overrides = {PairKey}
    /\ result.val.overrides[PairKey] =
         (IF ~IsRaise(ParseInt(PairValue)) THEN ParseInt(PairValue)
          ELSE IF ~IsRaise(ParseFloat(PairValue)) THEN ParseFloat(PairValue)
          ELSE StrVal(PairValue))
    /\ (AllDigits(PairValue) => result.val.overrides[PairKey].t = "int")
    /\ (ThePair = Rooms5
          => /\ result.val.overrides = (Col("Rooms") :> IntVal(5))
             /\ result.val.feature_row = (Col("Rooms") :> IntVal(5)))
    /\ (ThePair = Rooms3Point0
          => result.val.overrides = (Col("Rooms") :> FloatVal(3, 0)))

\* a pair with spaces around the column and an integer value was parsed
C4_Witness ==
  /\ OnePairParsed
  /\ ThePair = <<Space, "Rooms", "=", "5", "5">>
  /\ result.val.overrides = (Col("Rooms") :> IntVal(55))
  /\ result.val.feature_row = (Col("Rooms") :> IntVal(55))

(***************************** SpecAuth ***********************************)
\* registrations and logins, one request after the other
\* salts bcrypt.gensalt() may draw
NSalts == 2

Absent == [t |-> "absent"]
UsernameChoices ==
  {Absent, None, StrVal(<<>>), StrVal(<<Space>>), StrVal(<<"a">>),
   StrVal(<<Space, "a", Space>>)}
Password8 == <<"p", "a", "s", "s", "w", "o", "r", "d">>
Secret9 == <<"s", "e", "c", "r", "e", "t", "1", "2", "3">>
PasswordChoices ==
  {Absent, None, StrVal(<<>>), StrVal(<<"s", "h", "o", "r", "t">>),
   StrVal(SubSeq(Password8, 1, MinPasswordLength - 1)), StrVal(Password8), StrVal(Secret9)}
\* the JSON bodies: an object with a username, a password, both or neither
Payloads ==
  {Restrict(("username" :> u) @@ ("password" :> p),
            {k \in {"username", "password"} :
               (k = "username" /\ u # Absent) \/ (k = "password" /\ p # Absent)}) :
     u \in UsernameChoices, p \in PasswordChoices}

InitAuth ==
  /\ csv = <<>>
  /\ fs = EmptyFs
  /\ environ = EmptyDict
  /\ service = None
  /\ users = <<>>
  /\ call = Idle
  /\ result = None
  /\ previous = None

NextAuth ==
  \/ \E payload \in Payloads, salt \in 1..NSalts : RegisterUser(payload, salt)
  \/ \E payload \in Payloads : LoginUser(payload)

SpecAuth == InitAuth /\ [][NextAuth]_vars

(***************************** claims on registration *********************)
Registering == call.op = "register_user"
RawUsername == PayloadGet(call.payload, "username")
RawPassword == PayloadGet(call.payload, "password")
\* the table before the request has a user of that name
Registered(username) == \E i \in 1..Len(call.users) : call.users[i].username = username
\* the table after the request is the table before it with one more user,
\* of that name
OneMoreUser(username) ==
  /\ Len(users) = Len(call.users) + 1
  /\ SubSeq(users, 1, Len(call.users)) = call.users
  /\ users[Len(users)].username = username
\* a first registration with a valid password is answered 201 and adds the user
FirstRegistrationCreated ==
  (/\ Registering
   /\ Strip(RawUsername) # <<>>
   /\ ~Registered(Strip(RawUsername))
   /\ Len(RawPassword) >= MinPasswordLength)
  => result.status = 201 /\ OneMoreUser(Strip(RawUsername))

\* C9 as stated: every registration whose trimmed username is that of a
\* registered user is answered 409 and leaves the table as it was. It fails
\* when the request has no password or one shorter than 8 characters: the
\* answer is then 400.
C9_DuplicateUsernameReturns409 ==
  /\ (Registering /\ Registered(Strip(RawUsername)))
       => result.status = 409 /\ users = call.users
  /\ FirstRegistrationCreated

\* C9 amended: a registration whose trimmed username is that of a registered
\* user leaves the table as it was (no second user, the record and its hash
\* unchanged) and is answered 409 when its password has 8 characters or
\* more, and 400 otherwise; the first registration of a username with a
\* valid password was answered 201.
C9_DuplicateWithValidPasswordReturns409 ==
  /\ (Registering /\ Registered(Strip(RawUsername)))
       => /\ users = call.users
          /\ result.status = IF Len(RawPassword) >= MinPasswordLength THEN 409 ELSE 400
  /\ FirstRegistrationCreated

\* a registered username sent again with spaces around it and with another
\* valid password
C9_Witness ==
  /\ Registering
  /\ RawUsername # Strip(RawUsername)
  /\ Registered(Strip(RawUsername))
  /\ Len(RawPassword) >= MinPasswordLength
  /\ \E i \in 1..Len(users) : /\ users[i].username = Strip(RawUsername)
                              /\ users[i].password_hash.password # RawPassword
  /\ result.status = 409

\* answered 400 with a message that names the minimum, without a token and
\* without a change of the table
RefusedAsTooShort ==
  /\ result.status = 400
  /\ \E i \in 1..Len(result.body.error) : result.body.error[i] = "8"
  /\ "token" \notin DOMAIN result.body
  /\ users = call.users
RefusedAsMissing ==
  (Registering /\ (RawUsername = <<>> \/ RawPassword = <<>>))
  => result.status = 400 /\ users = call.users

\* C10 as stated: a registration with a non-empty username and a non-empty
\* password of fewer than 8 characters is answered 400 with a message that
\* names the 8-character minimum. It fails for a username of spaces only:
\* the message is then that username and password are required.
C10_ShortPasswordRefused ==
  /\ (/\ Registering
      /\ RawUsername # <<>>
      /\ RawPassword # <<>>
      /\ Len(RawPassword) < MinPasswordLength)
       => RefusedAsTooShort
  /\ RefusedAsMissing

\* C10 amended: a registration whose username is non-empty after trimming,
\* with a non-empty password of fewer than 8 characters, is answered 400 with
\* a message that names the 8-character minimum, no token, the table
\* unchanged; a missing or empty username or password is answered 400 with
\* the table unchanged.
C10_ShortPasswordRefusedForTrimmedUsername ==
  /\ (/\ Registering
      /\ Strip(RawUsername) # <<>>
      /\ RawPassword # <<>>
      /\ Len(RawPassword) < MinPasswordLength)
       => RefusedAsTooShort
  /\ RefusedAsMissing

\* a password one character short of the minimum refused, a user registered
C10_Witness ==
  /\ Registering
  /\ Strip(RawUsername) # <<>>
  /\ Len(RawPassword) = MinPasswordLength - 1
  /\ result.status = 400
  /\ result.body.error = TooShortMessage
  /\ Len(users) >= 1

(***************************** claims on login ****************************)
LoggingIn == call.op = "login_user"
\* the table is the successful registrations: a 201 added the user with the
\* trimmed username and the hash of the password sent, any other answer
\* added nothing
TableIsRegistrations ==
  Registering =>
    IF result.status = 201
    THEN /\ OneMoreUser(Strip(RawUsername))
         /\ users[Len(users)].password_hash.password = RawPassword
    ELSE users = call.users
\* a user of that name was registered with exactly that password
RegisteredWith(username, password) ==
  \E i \in 1..Len(call.users) :
    /\ call.users[i].username = username
    /\ call.users[i].password_hash.password = password
\* answered 200 with the user of that name and a token signed for that user
LoggedInAs(username) ==
  /\ result.status = 200
  /\ result.body.user.username = username
  /\ \E i \in 1..Len(users) : /\ users[i].username = username
                              /\ result.body.user.id = users[i].id
                              /\ result.body.token = _issue_token(users[i])
LoginLeavesTable == LoggingIn => users = call.users
LoginMissing ==
  (LoggingIn /\ (RawUsername = <<>> \/ RawPassword = <<>>)) => result.status = 400

\* C11 as stated: a login with a non-empty username u and password p is
\* answered 200 when a user trim(u) was registered with exactly p, and 401
\* otherwise. It fails for a username of spaces only: the answer is 400.
C11_LoginIffRegistered ==
  /\ TableIsRegistrations
  /\ LoginLeavesTable
  /\ LoginMissing
  /\ (LoggingIn /\ RawUsername # <<>> /\ RawPassword # <<>>)
       => IF RegisteredWith(Strip(RawUsername), RawPassword)
          THEN LoggedInAs(Strip(RawUsername))
          ELSE result.status = 401

\* C11 amended: a login whose username is non-empty after trimming, with a
\* non-empty password p, is answered 200 with the user and a signed token
\* exactly when a user of the trimmed name was registered with exactly p, and
\* 401 otherwise; a username that is missing or empty after trimming, or a
\* missing or empty password, is answered 400; login never changes the table.
C11_LoginIffRegisteredTrimmed ==
  /\ TableIsRegistrations
  /\ LoginLeavesTable
  /\ LoginMissing
  /\ (LoggingIn /\ (Strip(RawUsername) = <<>> \/ RawPassword = <<>>))
       => result.status = 400
  /\ (LoggingIn /\ Strip(RawUsername) # <<>> /\ RawPassword # <<>>)
       => IF RegisteredWith(Strip(RawUsername), RawPassword)
          THEN LoggedInAs(Strip(RawUsername))
          ELSE result.status = 401

\* a login with spaces around the username answered 200, with two users
\* registered
C11_Witness ==
  /\ LoggingIn
  /\ RawUsername # Strip(RawUsername)
  /\ LoggedInAs(Strip(RawUsername))
  /\ Len(users) = 2

\* a login with a registered username and another user's password refused
C11_WrongPasswordWitness ==
  /\ LoggingIn
  /\ Registered(Strip(RawUsername))
  /\ ~RegisteredWith(Strip(RawUsername), RawPassword)
  /\ \E i \in 1..Len(users) : users[i].password_hash.password = RawPassword
  /\ result.status = 401


(***************************** SpecEndpoint *******************************)
\* GET /predict on a service whose model file holds the pipeline trained on
\* the data file, or an object that is not a pipeline
EndpointPairs ==
  FeaturePairs
  \cup {<<<<"Suburb", "=", "Z">>, <<"x">>>>, <<<<"Suburb", "=", "Z">>, <<" ", "=", "5">>>>,
        <<<<"=", "5">>>>}
EndpointRequests == {[params |-> q, feature |-> f] : q \in QueryParams, f \in EndpointPairs}

InitEndpoint ==
  /\ csv \in SeqsUpTo(ServiceRows, MaxRows)
  /\ \E trained \in {train_gradient_boosting(ServiceConfig, csv, EmptyFs, EmptyDict,
                                               IntVal(0))} :
       /\ ~IsRaise(trained.ret)
       /\ environ = trained.environ
       /\ fs \in {trained.fs,
                  [trained.fs EXCEPT !.files = Put(trained.fs.files, ModelPath, Pickle(None))]}
       /\ \E built \in {PricePredictionService(fs, csv, ModelPath, Col("Price"))} :
            /\ ~IsRaise(built)
            /\ service = built.val
  /\ users = <<>>
  /\ call = Idle
  /\ result = None
  /\ previous = None

PairLists == EndpointPairs \cup {<<p, q>> : p \in ExamplePairs, q \in ExamplePairs}

NextEndpoint ==
  \/ \E args \in EndpointRequests : PredictEndpoint(args)
  \/ \E feature_pairs \in PairLists : ParseFeaturePairs(feature_pairs)

SpecEndpoint == InitEndpoint /\ [][NextEndpoint]_vars

(***************************** claims on GET /predict *********************)
Requesting == call.op = "predict_endpoint"
\* what collect_overrides and service.predict raise or return for the request
EndpointRaised ==
  LET overrides == collect_overrides(call.args)
  IN IF IsRaise(overrides) THEN overrides
     ELSE service_predict([service EXCEPT !.defaults = call.defaults], overrides.val).ret
\* the request names a typed feature, by flag name or else by column name,
\* with a value its type does not parse
Uncastable(args) ==
  \E i \in 1..Len(FEATURE_ARGUMENTS) :
     LET fa == FEATURE_ARGUMENTS[i]
         name == IF fa.cli_name \in DOMAIN args.params THEN fa.cli_name ELSE fa.column_name
     IN /\ name \in DOMAIN args.params
        /\ \/ fa.caster = "int" /\ IsRaise(ParseInt(args.params[name]))
           \/ fa.caster = "float" /\ IsRaise(ParseFloat(args.params[name]))
ErrorBody == DOMAIN result.body = {"error"}

\* C12: GET /predict answers 400 with an {error} body when collecting the
\* overrides or predicting raised a file-not-found or validation error (a
\* typed parameter that does not cast is one), 500 with a generic message for
\* any other exception, and 200 only when nothing was raised, then with
\* prediction, currency, features and overrides.
C12_StatusFollowsException ==
  Requesting =>
    /\ (IsRaise(EndpointRaised) /\ IsBadRequest(EndpointRaised))
         => (result.status = 400 /\ ErrorBody)
    /\ Uncastable(call.args) => (result.status = 400 /\ ErrorBody)
    /\ (IsRaise(EndpointRaised) /\ ~IsBadRequest(EndpointRaised))
         => /\ result.status = 500
            /\ ErrorBody
            /\ SubSeq(result.body.error, 1, Len(Unexpected)) = Unexpected
    /\ result.status = 200
         => /\ ~IsRaise(EndpointRaised)
            /\ DOMAIN result.body = {"prediction", "currency", "features", "overrides"}
    /\ result.status \in {200, 400, 500}

\* rooms=x was refused with 400 by a service whose model file would have made
\* any prediction fail otherwise
C12_Witness ==
  /\ Requesting
  /\ Col("rooms") \in DOMAIN call.args.params
  /\ call.args.params[Col("rooms")] = <<"x">>
  /\ service.pipeline = None
  /\ result.status = 400

\* a request answered 500, and one answered 200
C12_UnexpectedWitness == Requesting /\ result.status = 500 /\ ~Uncastable(call.args)
C12_AnsweredWitness == Requesting /\ result.status = 200 /\ call.args.feature # <<>>


(***************************** claims on malformed pairs ******************)
\* a pair without "=" or with nothing but spaces before its first "="
Malformed(pair) ==
  \/ FirstIndex(pair, "=") = 0
  \/ \A i \in 1..(FirstIndex(pair, "=") - 1) : pair[i] = Space
HasMalformed(pairs) == \E i \in 1..Len(pairs) : Malformed(pairs[i])
Parsing == call.op = "parse_custom_features"

\* C13: a list with a pair that has no "=" or an empty key makes
\* parse_custom_features raise a ValueError and return no mapping, whatever
\* the pairs before it; GET /predict with such a list answers 400 with an
\* {error} body and no prediction.
C13_MalformedPairFailsWholeList ==
  /\ (Parsing /\ HasMalformed(call.feature_pairs)) => result = Raise("ValueError")
  /\ (Requesting /\ HasMalformed(call.args.feature))
       => /\ result.status = 400
          /\ ErrorBody
          /\ IsRaise(collect_overrides(call.args))

\* GET /predict with a well-formed pair followed by a pair whose key is
\* empty, answered by a service that holds a fitted pipeline
C13_Witness ==
  /\ Requesting
  /\ call.args.params = EmptyDict
  /\ call.args.feature = <<<<"Suburb", "=", "Z">>, <<" ", "=", "5">>>>
  /\ service.pipeline # None
  /\ result.status = 400

\* parse_custom_features raised on a well-formed pair followed by one
\* without "="
C13_ParseWitness ==
  /\ Parsing
  /\ call.feature_pairs = <<<<"Suburb", "=", "Z">>, <<"x">>>>
  /\ IsRaise(result)


(***************************** SpecCli ************************************)
\* runs of the command line, one after the other, on one data file: train
\* writes the model file that calc reads
MissingData == [t |-> "path", name |-> "data/missing.csv"]
Argv(command, data, model, options, feature) ==
  [command |-> command, data |-> data, model |-> model, options |-> options,
   feature |-> feature, disable_hist |-> FALSE]
\* no subcommand, an unknown one, train and calc with paths that exist or do
\* not, with values that cast or do not, and with well and ill formed pairs
Argvs ==
  {Argv(command, None, None, EmptyDict, <<>>) : command \in {<<>>, <<"predict">>}}
  \cup {Argv(<<"train">>, data, None, options, <<>>) :
          data \in {None, MissingData},
          options \in {EmptyDict, (Col("test-size") :> <<"0", ".", "5">>),
                       (Col("test-size") :> <<"x">>), (Col("n-threads") :> <<"2">>),
                       (Col("rooms") :> <<"5">>)}}
  \cup {Argv(<<"calc">>, data, model, options, feature) :
          data \in {None, MissingData}, model \in {None, MissingPath},
          options \in {EmptyDict, (Col("rooms") :> <<"5">>), (Col("rooms") :> <<"x">>)},
          feature \in {<<>>, <<<<"Suburb", "=", "Z">>>>, <<<<"x">>>>}}

InitCli ==
  /\ csv \in SeqsUpTo(TrainRows, MaxRows)
  /\ fs = EmptyFs
  /\ environ = EmptyDict
  /\ service = None
  /\ users = <<>>
  /\ call = Idle
  /\ result = None
  /\ previous = None

NextCli == \E argv \in Argvs : Main(argv, IntVal(0))

SpecCli == InitCli /\ [][NextCli]_vars

(***************************** claims on the exit status ******************)
Ran == call.op = "main"

\* C14: a run of main ends with exit status 0 when the handler of the
\* subcommand completed, and otherwise with exit status 1 and a message on
\* the error stream; no run ends with another status.
C14_ExitStatusIsZeroOrOne ==
  Ran => IF result.handler = "completed" THEN result.exit_code = 0
         ELSE result.exit_code = 1 /\ result.stderr # <<>>

\* what holds of every run: status 0 when the handler completed, status 1
\* with the message of the exception when the handler raised, status 2 with
\* the usage message when the parser refused the command line
C14_ExitStatusByStage ==
  Ran => /\ result.handler = "completed" => result.exit_code = 0 /\ result.stderr = <<>>
         /\ result.handler = "raised" => result.exit_code = 1 /\ Head(result.stderr) = "Error: "
         /\ result.handler = "not called" => result.exit_code = 2 /\ result.stderr # <<>>

\* calc --rooms x: the value does not cast and the run ends with status 2
C14_UsageWitness ==
  /\ Ran
  /\ call.argv.command = <<"calc">>
  /\ call.argv.options = (Col("rooms") :> <<"x">>)
  /\ result.exit_code = 2
C14_CompletedWitness == Ran /\ call.argv.command = <<"calc">> /\ result.exit_code = 0
C14_RaisedWitness == Ran /\ call.argv.feature = <<<<"x">>>> /\ result.exit_code = 1


(***************************** SpecConcurrent *****************************)
\* GET /predict requests served at the same time by the threads of one
\* process, all on the one PricePredictionService of the application. call
\* holds the frame of each thread (its position and its locals), result the
\* response each has sent
Clients == {"c1", "c2"}
Started(args) ==
  [pc |-> "collect", args |-> args, overrides |-> None, feature_row |-> None,
   price |-> None]
\* no parameter, a number of rooms, an unseen suburb, a number of rooms that
\* does not cast, and a pair that puts a word in the numeric column
ConcurrentRequests ==
  {[params |-> EmptyDict, feature |-> <<>>],
   [params |-> (Col("rooms") :> <<"5">>), feature |-> <<>>],
   [params |-> (Col("suburb") :> <<"Z">>), feature |-> <<>>],
   [params |-> (Col("rooms") :> <<"x">>), feature |-> <<>>],
   [params |-> EmptyDict, feature |-> <<<<"Rooms", "=", "x">>>>]}

\* overrides = collect_overrides(request.args)
CollectOverrides(c) ==
  /\ call[c].pc = "collect"
  /\ \E overrides \in {collect_overrides(call[c].args)} :
       IF IsRaise(overrides)
       THEN /\ call' = [call EXCEPT ![c].pc = "done"]
            /\ result' = [result EXCEPT ![c] = ErrorResponse(overrides)]
       ELSE /\ call' = [call EXCEPT ![c].pc = "apply", ![c].overrides = overrides.val]
            /\ result' = result
  /\ UNCHANGED <<csv, fs, environ, service, users, previous>>

\* feature_row = apply_feature_overrides(self.defaults, dict(overrides))
ApplyOverrides(c) ==
  /\ call[c].pc = "apply"
  /\ \E out \in {apply_feature_overrides(service.defaults, call[c].overrides)} :
       /\ call' = [call EXCEPT ![c].pc = "predict", ![c].feature_row = out.combined]
       /\ service' = [service EXCEPT !.defaults = out.base_features]
  /\ UNCHANGED <<csv, fs, environ, users, result, previous>>

\* price = predict_price(self.pipeline, feature_row)
PredictPrice(c) ==
  /\ call[c].pc = "predict"
  /\ \E price \in {predict_price(service.pipeline, call[c].feature_row)} :
       IF IsRaise(price)
       THEN /\ call' = [call EXCEPT ![c].pc = "done"]
            /\ result' = [result EXCEPT ![c] = ErrorResponse(price)]
       ELSE /\ call' = [call EXCEPT ![c].pc = "respond", ![c].price = price.val]
            /\ result' = result
  /\ UNCHANGED <<csv, fs, environ, service, users, previous>>

\* return jsonify(response)
Respond(c) ==
  /\ call[c].pc = "respond"
  /\ call' = [call EXCEPT ![c].pc = "done"]
  /\ result' = [result EXCEPT ![c] =
                  [status |-> 200,
                   body |-> [prediction |-> Round(call[c].price, 2),
                             currency |-> "AUD",
                             features |-> call[c].feature_row,
                             overrides |-> call[c].overrides]]]
  /\ UNCHANGED <<csv, fs, environ, service, users, previous>>

\* the thread takes its next request
NextRequest(c, args) ==
  /\ call[c].pc = "done"
  /\ call' = [call EXCEPT ![c] = Started(args)]
  /\ result' = [result EXCEPT ![c] = None]
  /\ UNCHANGED <<csv, fs, environ, service, users, previous>>

InitConcurrent ==
  /\ csv \in SeqsUpTo(ServiceRows, MaxRows)
  /\ \E trained \in {train_gradient_boosting(ServiceConfig, csv, EmptyFs, EmptyDict,
                                               IntVal(0))} :
       /\ ~IsRaise(trained.ret)
       /\ fs = trained.fs
       /\ environ = trained.environ
       /\ \E built \in {PricePredictionService(trained.fs, csv, ModelPath, Col("Price"))} :
            /\ ~IsRaise(built)
            /\ service = built.val
  /\ users = <<>>
  /\ call \in [Clients -> {Started(args) : args \in ConcurrentRequests}]
  /\ result = [c \in Clients |-> None]
  /\ previous = None

NextConcurrent ==
  \E c \in Clients :
     \/ CollectOverrides(c)
     \/ ApplyOverrides(c)
     \/ PredictPrice(c)
     \/ Respond(c)
     \/ \E args \in ConcurrentRequests : NextRequest(c, args)

SpecConcurrent == InitConcurrent /\ [][NextConcurrent]_vars

(***************************** claims on concurrent requests **************)
\* the service as it was built from the model file and the data file
BuiltService == PricePredictionService(fs, csv, ModelPath, Col("Price")).val
\* the response the request of c gets when it is the only one
Alone(c) == predict_endpoint(BuiltService, call[c].args).response

\* C20: however the steps of the requests interleave, the pipeline and the
\* defaults of the service stay what they were built as, and every response
\* sent (prediction, features, overrides, or the error) is the one the same
\* request gets when it is served alone.
C20_RequestsDoNotInterfere ==
  /\ service = BuiltService
  /\ \A c \in Clients : result[c] # None => result[c] = Alone(c)

\* two requests in flight at once with different overrides: c1 has its price
\* and has not answered yet, c2 has laid its overrides over the defaults
C20_Witness ==
  /\ call["c1"].pc = "respond"
  /\ call["c2"].pc = "predict"
  /\ call["c1"].overrides # call["c2"].overrides
  /\ call["c1"].feature_row # call["c2"].feature_row
  /\ call["c2"].overrides # EmptyDict

\* both requests answered 200 with different features
C20_AnsweredWitness ==
  /\ \A c \in Clients : call[c].pc = "done" /\ result[c].status = 200
  /\ result["c1"].body.features # result["c2"].body.features

(***************************** thread-count hint ***************************)
\* absent, negative, zero and two positive hints
ThreadHints == {None, IntVal(-1), IntVal(0), IntVal(1), IntVal(2)}

ThreadConfigs ==
  {[TrainConfig(DefaultTestSize, DefaultRandomState, None, TRUE) EXCEPT !.n_threads = n] :
     n \in ThreadHints}

\* the environment the process starts with: empty, or holding a thread
\* variable and a variable of another kind
StartEnvirons ==
  {EmptyDict, [k \in {"OMP_NUM_THREADS", "HOME"} |-> IF k = "HOME" THEN <<"/", "r">> ELSE <<"8">>]}

InitThreads ==
  /\ csv \in SeqsUpTo(TrainRows, MaxRows)
  /\ fs = EmptyFs
  /\ environ \in StartEnvirons
  /\ service = None
  /\ users = <<>>
  /\ call = Idle
  /\ result = None
  /\ previous = None

NextThreads == \E config \in ThreadConfigs, entropy \in Entropy : Train(config, entropy)

SpecThreads == InitThreads /\ [][NextThreads]_vars

PositiveHint(n_threads) == n_threads # None /\ n_threads.v > 0

\* every thread variable of env holds str(k)
HoldsThreads(env, k) ==
  \A e \in SeqToSet(thread_env_vars) : e \in DOMAIN env /\ env[e] = IntToStr(k)

\* C21: a training run with a positive thread-count hint k that returns leaves
\* each of the five thread variables of the process at str(k) and every other
\* variable as it was; a run whose hint is absent, zero or negative leaves the
\* whole environment as it was, so the k of an earlier run stays for it.
C21_HintSetsThreadVariables ==
  [][LET hint == call'.config.n_threads
     IN /\ (PositiveHint(hint) /\ result'.ret.t = "ok") =>
             /\ HoldsThreads(environ', hint.v)
             /\ DOMAIN environ' = DOMAIN environ \cup SeqToSet(thread_env_vars)
             /\ \A e \in DOMAIN environ \ SeqToSet(thread_env_vars) :
                  environ'[e] = environ[e]
        /\ ~PositiveHint(hint) => environ' = environ]_vars

\* a returned run with hint 2 whose five variables hold "2"
C21_Witness ==
  /\ call.op = "train_gradient_boosting"
  /\ call.config.n_threads = IntVal(2)
  /\ result.ret.t = "ok"
  /\ HoldsThreads(environ, 2)

\* a returned run without a hint in a process whose variables hold the "2" of
\* an earlier run
C21_LaterRunWitness ==
  /\ call.op = "train_gradient_boosting"
  /\ call.config.n_threads = None
  /\ result.ret.t = "ok"
  /\ HoldsThreads(environ, 2)

\* a run with hint 2 whose fit raised: the variables were set before the fit
C21_FitRaisedWitness ==
  /\ call.op = "train_gradient_boosting"
  /\ call.config.n_threads = IntVal(2)
  /\ result.ret.t = "raise"
  /\ HoldsThreads(environ, 2)
  /\ previous = None

(***************************** preprocessing pipeline *********************)
\* the headers a data file may have: the target alone, the target with the
\* numeric column, with the categorical column, and with both
BuildHeaders ==
  {{Col("Price")}, {Col("Price"), Col("Rooms")}, {Col("Price"), Col("Suburb")},
   SeqToSet(CsvColumns)}

\* the data files of each header, their rows cut from the training rows
BuildFiles ==
  UNION {SeqsUpTo({Restrict(r, h) : r \in TrainRows}, MaxRows) : h \in BuildHeaders}

\* runs that ask for two threads, with and without an output path
BuildConfigs ==
  {[TrainConfig(DefaultTestSize, DefaultRandomState, out, TRUE) EXCEPT !.n_threads = IntVal(2)] :
     out \in {None, ModelPath}}

NumericLists == {<<>>, <<Col("Rooms")>>, <<Col("Rooms"), Col("Distance")>>}
CategoricalLists == {<<>>, <<Col("Suburb")>>, <<Col("Suburb"), Col("Type")>>}

InitBuild ==
  /\ csv \in BuildFiles
  /\ fs = EmptyFs
  /\ environ = EmptyDict
  /\ service = None
  /\ users = <<>>
  /\ call = Idle
  /\ result = None
  /\ previous = None

NextBuild ==
  \/ \E numeric_features \in NumericLists, categorical_features \in CategoricalLists :
       BuildPreprocessor(numeric_features, categorical_features)
  \/ \E config \in BuildConfigs : Train(config, IntVal(0))

SpecBuild == InitBuild /\ [][NextBuild]_vars

\* the names of the chains of a column transformer, in order
ChainNames(preprocessor) ==
  [i \in 1..Len(preprocessor.transformers) |-> preprocessor.transformers[i].name]

\* the chain names two column lists call for
ExpectedChains(numeric_features, categorical_features) ==
  (IF numeric_features # <<>> THEN <<"numeric">> ELSE <<>>)
  \o (IF categorical_features # <<>> THEN <<"categorical">> ELSE <<>>)

TargetOnly == csv # <<>> /\ Header(csv) = <<Col("Price")>>

\* C22: _build_preprocessor raises ValueError when both column lists are
\* empty; otherwise it returns a transformer with exactly one chain per
\* non-empty list, over the columns of that list. A training run on a file
\* whose only column is the target raises ValueError with the threads not yet
\* configured (so before the fit) and writes no directory and no file; a run
\* that returns has the chains its feature columns call for.
C22_EmptyColumnListsFailTheBuild ==
  /\ call.op = "_build_preprocessor" =>
       IF call.numeric_features = <<>> /\ call.categorical_features = <<>>
       THEN result = Raise("ValueError")
       ELSE /\ result.t = "ok"
            /\ ChainNames(result.val)
                 = ExpectedChains(call.numeric_features, call.categorical_features)
            /\ ChainColumns(result.val, "numeric") = call.numeric_features
            /\ ChainColumns(result.val, "categorical") = call.categorical_features
  /\ (call.op = "train_gradient_boosting" /\ TargetOnly) =>
       /\ result.ret = Raise("ValueError")
       /\ fs = EmptyFs
       /\ environ = EmptyDict
  /\ (call.op = "train_gradient_boosting" /\ result.ret.t = "ok") =>
       /\ ~TargetOnly
       /\ ChainNames(result.ret.val.pipeline.preprocessor) # <<>>
       /\ SeqToSet(ChainColumns(result.ret.val.pipeline.preprocessor, "numeric"))
            \cup SeqToSet(ChainColumns(result.ret.val.pipeline.preprocessor, "categorical"))
            = SeqToSet(Header(csv)) \ {Col("Price")}

\* a run that asked for an output file on a file with rows whose only column
\* is the target
C22_Witness ==
  /\ call.op = "train_gradient_boosting"
  /\ call.config.model_output_path = ModelPath
  /\ TargetOnly
  /\ \E i \in 1..Len(csv) : ~IsMissing(csv[i][Col("Price")])
  /\ result.ret.t = "raise"

\* the build called with two empty lists
C22_EmptyWitness ==
  /\ call.op = "_build_preprocessor"
  /\ call.numeric_features = <<>>
  /\ call.categorical_features = <<>>
  /\ result.t = "raise"

\* the build called with one empty list returns one chain
C22_OneChainWitness ==
  /\ call.op = "_build_preprocessor"
  /\ call.numeric_features = <<>>
  /\ call.categorical_features # <<>>
  /\ result.t = "ok"
  /\ Len(result.val.transformers) = 1

\* a returned run on a file with the target and one numeric column
C22_NumericOnlyWitness ==
  /\ call.op = "train_gradient_boosting"
  /\ result.ret.t = "ok"
  /\ Header(csv) = <<Col("Price"), Col("Rooms")>>
  /\ ChainNames(result.ret.val.pipeline.preprocessor) = <<"numeric">>

(***************************** SpecRegister *******************************)
\* POST /auth/register requests served at the same time by the threads of
\* one process on one users table. call holds the frame of each thread: its
\* position, its payload and the User it has added to its session; taken (the
\* usernames of the table when the request began) and during (the threads that
\* had a request in flight while this one was) are kept for the properties
RegisterRequests ==
  {("username" :> StrVal(u)) @@ ("password" :> StrVal(p)) :
     u \in {<<"a">>, <<Space, "a", Space>>, <<"b">>},
     p \in {Password8, SubSeq(Password8, 1, MinPasswordLength - 1)}}

Usernames(table) == {table[i].username : i \in 1..Len(table)}

Arrived(payload, others) ==
  [pc |-> "validate", payload |-> payload, user |-> None,
   taken |-> Usernames(users), during |-> others]

\* lines 72-82: payload, username, password, the two checks, User(...),
\* db.session.add(user)
Validate(c, salt) ==
  /\ call[c].pc = "validate"
  /\ LET username == Strip(PayloadGet(call[c].payload, "username"))
         password == PayloadGet(call[c].payload, "password")
     IN IF username = <<>> \/ password = <<>>
        THEN /\ call' = [call EXCEPT ![c].pc = "done"]
             /\ result' = [result EXCEPT ![c] = Response(400, [error |-> RequiredMessage])]
        ELSE IF too_short(password)
        THEN /\ call' = [call EXCEPT ![c].pc = "done"]
             /\ result' = [result EXCEPT ![c] = Response(400, [error |-> TooShortMessage])]
        ELSE /\ call' = [call EXCEPT ![c].pc = "commit",
                                     ![c].user = [username |-> username,
                                                  password_hash |->
                                                    _hash_password(password, salt)]]
             /\ result' = result
  /\ UNCHANGED <<csv, fs, environ, service, users, previous>>

\* lines 83-89: db.session.commit() inserts the row, which the database
\* refuses when the unique index has the username; then the response
Commit(c) ==
  /\ call[c].pc = "commit"
  /\ \E committed \in {commit(users, [id |-> Len(users) + 1,
                                      username |-> call[c].user.username,
                                      password_hash |-> call[c].user.password_hash])} :
       IF IsRaise(committed)
       THEN /\ users' = users
            /\ result' = [result EXCEPT ![c] = Response(409, [error |-> ExistsMessage])]
       ELSE /\ users' = committed.val
            /\ result' = [result EXCEPT ![c] =
                            Response(201, _authentication_response(
                                            committed.val[Len(committed.val)]))]
  /\ call' = [call EXCEPT ![c].pc = "done"]
  /\ UNCHANGED <<csv, fs, environ, service, previous>>

InFlight(c) == call[c].pc # "done"

\* the thread takes its next request
NextRegistration(c, payload) ==
  /\ call[c].pc = "done"
  /\ call' = [d \in Clients |->
                IF d = c THEN Arrived(payload, {e \in Clients \ {c} : InFlight(e)})
                ELSE IF InFlight(d) THEN [call[d] EXCEPT !.during = @ \cup {c}]
                ELSE call[d]]
  /\ result' = [result EXCEPT ![c] = None]
  /\ UNCHANGED <<csv, fs, environ, service, users, previous>>

InitRegister ==
  /\ csv = <<>>
  /\ fs = EmptyFs
  /\ environ = EmptyDict
  /\ service = None
  /\ users = <<>>
  /\ \E payloads \in [Clients -> RegisterRequests] :
       call = [c \in Clients |-> Arrived(payloads[c], Clients \ {c})]
  /\ result = [c \in Clients |-> None]
  /\ previous = None

NextRegister ==
  \E c \in Clients :
     \/ \E salt \in 1..NSalts : Validate(c, salt)
     \/ Commit(c)
     \/ \E payload \in RegisterRequests : NextRegistration(c, payload)

SpecRegister == InitRegister /\ [][NextRegister]_vars

(***************************** claims on concurrent registration **********)
TrimmedUsername(c) == Strip(PayloadGet(call[c].payload, "username"))
ValidPassword(c) == ~too_short(PayloadGet(call[c].payload, "password"))
\* the requests of c and d were in flight together, asked for one username
\* with passwords long enough, and both are answered
RacedForOneName(c, d) ==
  /\ c # d
  /\ d \in call[c].during /\ c \in call[d].during
  /\ ~InFlight(c) /\ ~InFlight(d)
  /\ TrimmedUsername(c) = TrimmedUsername(d)
  /\ ValidPassword(c) /\ ValidPassword(d)
UsersNamed(username) == {i \in 1..Len(users) : users[i].username = username}
UniqueUsernames ==
  \A i, j \in 1..Len(users) : users[i].username = users[j].username => i = j

\* C23 as stated: the usernames of the table are unique, and two requests
\* in flight together for one trimmed username with valid passwords are
\* answered 201 and 409, one user having the name afterwards.
C23_OneOfTwoRegisters ==
  /\ UniqueUsernames
  /\ \A c, d \in Clients :
       RacedForOneName(c, d) =>
         /\ {result[c].status, result[d].status} = {201, 409}
         /\ Cardinality(UsersNamed(TrimmedUsername(c))) = 1

\* C23: the usernames of the table are unique in every state; two requests in
\* flight together for one trimmed username with valid passwords leave one
\* user of that name, and are answered 201 and 409 when no user had the name
\* as they arrived, and 409 both when a user had it.
C23_OneOfTwoRegistersFreshName ==
  /\ UniqueUsernames
  /\ \A c, d \in Clients :
       RacedForOneName(c, d) =>
         /\ Cardinality(UsersNamed(TrimmedUsername(c))) = 1
         /\ IF TrimmedUsername(c) \in call[c].taken \cup call[d].taken
            THEN result[c].status = 409 /\ result[d].status = 409
            ELSE {result[c].status, result[d].status} = {201, 409}

\* both requests had passed the checks before either committed, for a name
\* no user had: c1 got its 201 and c2 the 409
C23_Witness ==
  /\ RacedForOneName("c1", "c2")
  /\ call["c1"].payload # call["c2"].payload
  /\ call["c1"].taken = {} /\ call["c2"].taken = {}
  /\ result["c1"].status = 201
  /\ result["c2"].status = 409
  /\ Len(users) = 1

\* c2 has added its user to its session and c1, with the same name, has
\* committed
C23_InFlightWitness ==
  /\ call["c2"].pc = "commit"
  /\ call["c1"].pc = "done"
  /\ result["c1"] # None /\ result["c1"].status = 201
  /\ call["c2"].user.username = TrimmedUsername("c1")

(***************************** SpecOverrides ******************************)
\* one column overridden in several ways in one request: by the short name,
\* by the column name and by feature pairs at GET /predict, by a flag and by
\* --feature pairs in the calc command
OverrideFiles ==
  {<<Row(IntVal(500000), IntVal(3), CatA), Row(IntVal(600000), IntVal(4), CatB),
     Row(IntVal(600000), IntVal(5), CatA)>>,
   <<Row(IntVal(600000), IntVal(4), CatB), Row(IntVal(600000), IntVal(5), CatA)>>}

\* every subset of rooms, Rooms, suburb and Suburb, each with a value of its
\* own; the short name of the rooms also with a value that is no number
OverrideParams ==
  {Restrict((Col("rooms") :> r) @@ (Col("Rooms") :> <<"4">>)
            @@ (Col("suburb") :> <<"Z">>) @@ (Col("Suburb") :> <<"A">>), names) :
     r \in {<<"5">>, <<"x">>},
     names \in SUBSET {Col("rooms"), Col("Rooms"), Col("suburb"), Col("Suburb")}}

\* no pair, one pair, the same column twice, and twice around another column
OverridePairs ==
  {<<>>,
   <<<<"Rooms", "=", "7">>>>,
   <<<<"Rooms", "=", "7">>, <<"Rooms", "=", "8">>>>,
   <<<<"Suburb", "=", "B">>>>,
   <<<<"Rooms", "=", "7">>, <<"Suburb", "=", "B">>, <<"Rooms", Space, "=", Space, "8">>>>}

OverrideRequests == {[params |-> q, feature |-> f] : q \in OverrideParams, f \in OverridePairs}

OverrideCalcArgs ==
  {[model |-> ModelPath, data |-> DataPath, target |-> Col("Price"), feature |-> f,
    flags |-> Update(NoFlags, given)] :
     f \in OverridePairs,
     given \in {EmptyDict, (Col("rooms") :> IntVal(5)), (Col("suburb") :> CatZ),
                (Col("rooms") :> IntVal(5)) @@ (Col("suburb") :> CatZ)}}

InitOverrides ==
  /\ csv \in OverrideFiles
  /\ \E trained \in {train_gradient_boosting(ServiceConfig, csv, EmptyFs, EmptyDict,
                                               IntVal(0))} :
       /\ ~IsRaise(trained.ret)
       /\ fs = trained.fs
       /\ environ = trained.environ
       /\ \E built \in {PricePredictionService(trained.fs, csv, ModelPath, Col("Price"))} :
            /\ ~IsRaise(built)
            /\ service = built.val
  /\ users = <<>>
  /\ call = Idle
  /\ result = None
  /\ previous = None

NextOverrides ==
  \/ \E args \in OverrideRequests : PredictEndpoint(args)
  \/ \E args \in OverrideCalcArgs : HandleCalc(args)
  \/ \E feature_pairs \in OverridePairs : ParseFeaturePairs(feature_pairs)

SpecOverrides == InitOverrides /\ [][NextOverrides]_vars

(***************************** claims on the order of overrides ***********)
\* the named features the requests override
Overridden == {fa \in SeqToSet(FEATURE_ARGUMENTS) : fa.column_name \in {Col("Rooms"), Col("Suburb")}}
\* the column and the value of a pair written COLUMN=VALUE
ColumnOf(pair) == Strip(SubSeq(pair, 1, FirstIndex(pair, "=") - 1))
ValueOf(pair) == Strip(SubSeq(pair, FirstIndex(pair, "=") + 1, Len(pair)))
\* the positions of the pairs that name the column
PairsFor(feature, column) == {i \in 1..Len(feature) : ColumnOf(feature[i]) = column}
LastOf(S) == CHOOSE i \in S : \A j \in S : j <= i

\* the value the sources give a column: the last pair that names it, or else
\* typed, the value of the typed source
Winner(feature, column, typed) ==
  IF PairsFor(feature, column) # {}
  THEN maybe_cast_value(ValueOf(feature[LastOf(PairsFor(feature, column))]))
  ELSE typed

\* the typed query parameter of a feature: the one under the short name, or
\* else the one under the column name
TypedParam(params, fa) ==
  IF fa.cli_name \in DOMAIN params THEN coerce_value(params[fa.cli_name], fa.caster)
  ELSE IF fa.column_name \in DOMAIN params THEN coerce_value(params[fa.column_name], fa.caster)
  ELSE Absent

\* C24: in the overrides GET /predict answers with, a column holds the value
\* of the last feature pair that names it, else of the query parameter under
\* its short name, else of the one under its column name; in the calc command
\* it holds the last --feature pair that names it, else the value of its flag;
\* parse_custom_features gives a column the value of its last pair. The
\* effective row has the same value.
C24_LaterSourceWins ==
  /\ (call.op = "predict_endpoint" /\ result.status = 200) =>
       \A fa \in Overridden :
         LET w == Winner(call.args.feature, fa.column_name,
                         TypedParam(call.args.params, fa))
         IN IF w = Absent THEN fa.column_name \notin DOMAIN result.body.overrides
            ELSE /\ fa.column_name \in DOMAIN result.body.overrides
                 /\ result.body.overrides[fa.column_name] = w
                 /\ result.body.features[fa.column_name] = w
  /\ (call.op = "handle_calc" /\ result.locals # None) =>
       \A fa \in Overridden :
         LET w == Winner(call.args.feature, fa.column_name, call.args.flags[fa.cli_name])
         IN /\ result.locals.overrides[fa.column_name] = w
            /\ w # None => result.locals.feature_row[fa.column_name] = w
  /\ (call.op = "parse_custom_features" /\ result.t = "ok") =>
       \A column \in {Col("Rooms"), Col("Suburb")} :
         IF PairsFor(call.feature_pairs, column) = {}
         THEN column \notin DOMAIN result.val.overrides
         ELSE result.val.overrides[column] = Winner(call.feature_pairs, column, Absent)

\* rooms=5&Rooms=4&feature=Rooms=7&feature=Rooms=8 answered with Rooms 8
C24_Witness ==
  /\ call.op = "predict_endpoint"
  /\ {Col("rooms"), Col("Rooms")} \subseteq DOMAIN call.args.params
  /\ call.args.params[Col("rooms")] = <<"5">>
  /\ Len(call.args.feature) = 2
  /\ result.status = 200
  /\ result.body.overrides[Col("Rooms")] = IntVal(8)

\* suburb=Z&Suburb=A without a pair answered with Suburb Z
C24_ShortNameWitness ==
  /\ call.op = "predict_endpoint"
  /\ {Col("suburb"), Col("Suburb")} \subseteq DOMAIN call.args.params
  /\ call.args.feature = <<>>
  /\ result.status = 200
  /\ result.body.overrides[Col("Suburb")] = CatZ

\* calc --rooms 5 --feature Rooms=7 predicts for Rooms 7
C24_CalcWitness ==
  /\ call.op = "handle_calc"
  /\ call.args.flags[Col("rooms")] = IntVal(5)
  /\ Len(call.args.feature) = 1
  /\ result.ret.t = "ok"
  /\ result.locals.overrides[Col("Rooms")] = IntVal(7)

\* rooms=x&feature=Rooms=7 is refused: the typed parameter is cast before
\* the pairs are read
C24_RefusedWitness ==
  /\ call.op = "predict_endpoint"
  /\ Col("rooms") \in DOMAIN call.args.params
  /\ call.args.params[Col("rooms")] = <<"x">>
  /\ PairsFor(call.args.feature, Col("Rooms")) # {}
  /\ result.status = 400

=============================================================================
